---- MODULE Spec2Model ----
(***************************************************************************)
(* Voxeron voice agent: the per-session dialogue state machine            *)
(* (src/api/session_controller.py), the websocket audio loop and the      *)
(* liveness supervisor (src/api/server.py), run on an asyncio event loop. *)
(*                                                                         *)
(* Text is modelled as a sequence of tokens (words and punctuation marks) *)
(* over a closed vocabulary; time is in whole seconds.                    *)
(***************************************************************************)
EXTENDS Integers, Sequences, FiniteSets, TLC

None == "None"

Max(a, b) == IF a >= b THEN a ELSE b
Min(a, b) == IF a <= b THEN a ELSE b

(***************************************************************************)
(* Text                                                                    *)
(***************************************************************************)

\* str.lower() over the vocabulary
Lower(w) ==
    CASE w = "Yes" -> "yes"
      [] w = "No" -> "no"
      [] w = "Nederlands" -> "nederlands"
      [] w = "I'd" -> "i'd"
      [] OTHER -> w

RECURSIVE LowerSeq(_)
LowerSeq(s) == IF s = << >> THEN << >> ELSE <<Lower(Head(s))>> \o LowerSeq(Tail(s))

\* characters that are neither alphanumeric nor white space, as separate tokens
IsPunct(w) == w \in {",", ".", "?", "!"}

\* norm_simple on one word: punctuation becomes a space, an apostrophe splits the word
NormTok(w) ==
    IF IsPunct(w) THEN << >>
    ELSE CASE Lower(w) = "that's" -> <<"that", "s">>
           [] Lower(w) = "i'd" -> <<"i", "d">>
           [] OTHER -> <<Lower(w)>>

RECURSIVE norm_simple(_)
norm_simple(s) == IF s = << >> THEN << >> ELSE NormTok(Head(s)) \o norm_simple(Tail(s))

\* " p " in " " + t + " ": p occurs in t as a run of whole words
HasPhrase(t, p) ==
    \E i \in 1..(Len(t) - Len(p) + 1) : SubSeq(t, i, i + Len(p) - 1) = p

AnyPhrase(t, P) == \E p \in P : HasPhrase(t, p)

HasWord(t, W) == \E i \in 1..Len(t) : t[i] \in W

\* the vocabulary words that contain the string sub (Python's "sub in text" on one word)
WordsContaining(sub) ==
    CASE sub = "naan" -> {"naan"}
      [] sub = "nan" -> {"nan"}
      [] sub = "naam" -> {"naam"}
      [] sub = "lam" -> {"lam", "lamb"}
      [] sub = "lamb" -> {"lamb"}
      [] sub = "add" -> {"add"}
      [] sub = "toevoeg" -> {}
      [] sub = "spicy" -> {"spicy"}
      [] sub = "pittig" -> {}
      [] sub = "heet" -> {}
      [] sub = "plain" -> {"plain"}
      [] sub = "garlic" -> {"garlic"}
      [] sub = "knoflook" -> {}
      [] sub = "pickup" -> {"pickup"}
      [] sub = "delivery" -> {"delivery"}
      [] sub = "deliver" -> {"delivery"}
      [] sub = "weather" -> {"weather"}
      [] sub = "order" -> {"order"}
      [] sub = "another" -> {}
      [] sub = "change" -> {"change"}
      [] sub = "into" -> {}
      [] sub = "nog" -> {}
      [] OTHER -> {sub}

\* sub in text, for a one-word sub
CharIn(t, sub) == HasWord(t, WordsContaining(sub))

\* str.isdigit() and int() over the vocabulary
IsDigitTok(w) == w \in {"1", "2", "3"}
DigitVal(w) == CASE w = "1" -> 1 [] w = "2" -> 2 [] w = "3" -> 3 [] OTHER -> 0

QTY_MAP_NL(w) ==
    CASE w \in {"een", "1"} -> 1 [] w \in {"twee", "2"} -> 2
      [] w \in {"drie", "3"} -> 3 [] w \in {"vier", "4"} -> 4 [] OTHER -> 0

QTY_MAP_EN(w) ==
    CASE w \in {"one", "1"} -> 1 [] w \in {"two", "2"} -> 2
      [] w \in {"three", "3"} -> 3 [] w \in {"four", "4"} -> 4 [] OTHER -> 0

\* _QTY_WORDS: 0 stands for "not a quantity word"
QTY_WORDS(w) ==
    CASE w \in {"een", "a", "an", "one"} -> 1
      [] w \in {"twee", "two"} -> 2
      [] w \in {"drie", "three"} -> 3
      [] w \in {"vier", "four"} -> 4
      [] w \in {"vijf", "five"} -> 5
      [] w \in {"zes", "six"} -> 6
      [] w \in {"zeven", "seven"} -> 7
      [] w \in {"acht", "eight"} -> 8
      [] w \in {"negen", "nine"} -> 9
      [] w \in {"tien", "ten"} -> 10
      [] OTHER -> 0

\* _extract_qty_first: the first token of the normalized text found in the map; 0 for None
RECURSIVE FirstQty(_, _)
FirstQty(toks, lang) ==
    IF toks = << >> THEN 0
    ELSE LET q == IF lang = "nl" THEN QTY_MAP_NL(Head(toks)) ELSE QTY_MAP_EN(Head(toks))
         IN IF q > 0 THEN q ELSE FirstQty(Tail(toks), lang)

extract_qty_first(text, lang) == FirstQty(norm_simple(text), lang)

\* Python's "a or b" on Optional[int], None being 0
OrElse(a, b) == IF a # 0 THEN a ELSE b

(***************************************************************************)
(* MenuSnapshot: the catalogue the session reads                           *)
(***************************************************************************)
Items == {"butter_chicken", "lamb_karahi", "naan_plain", "naan_garlic", "lamb_biryani", "chicken_biryani"}

\* MenuSnapshot.display_name, lower-cased and split into words
display_name(iid) ==
    CASE iid = "butter_chicken" -> <<"butter", "chicken">>
      [] iid = "lamb_karahi" -> <<"lamb", "karahi">>
      [] iid = "naan_plain" -> <<"nan">>
      [] iid = "naan_garlic" -> <<"nan", "garlic">>
      [] iid = "lamb_biryani" -> <<"lamb", "biryani">>
      [] iid = "chicken_biryani" -> <<"chicken", "biryani">>
      [] OTHER -> <<iid>>

\* MenuSnapshot.name_choices, in catalogue order
name_choices ==
    <<"butter_chicken", "lamb_karahi", "naan_plain", "naan_garlic", "lamb_biryani", "chicken_biryani">>

\* MenuSnapshot.alias_map: normalized alias -> item id (item names plus alias rows)
alias_map ==
    { <<<<"butter", "chicken">>, "butter_chicken">>,
      <<<<"lamb", "karahi">>, "lamb_karahi">>,
      <<<<"nan">>, "naan_plain">>,
      <<<<"naan">>, "naan_plain">>,
      <<<<"nan", "garlic">>, "naan_garlic">>,
      <<<<"garlic", "naan">>, "naan_garlic">>,
      <<<<"lamb", "biryani">>, "lamb_biryani">>,
      <<<<"chicken", "biryani">>, "chicken_biryani">> }

\* len(alias) in characters
AliasChars(a) ==
    CASE a = <<"butter", "chicken">> -> 14
      [] a = <<"lamb", "karahi">> -> 11
      [] a = <<"nan">> -> 3
      [] a = <<"naan">> -> 4
      [] a = <<"nan", "garlic">> -> 10
      [] a = <<"garlic", "naan">> -> 11
      [] a = <<"lamb", "biryani">> -> 12
      [] a = <<"chicken", "biryani">> -> 15
      [] OTHER -> 0

(***************************************************************************)
(* OrderState: items is a dict, modelled as a function on its key set     *)
(***************************************************************************)
EmptyOrder == << >>

Get(o, k, d) == IF k \in DOMAIN o THEN o[k] ELSE d
Put(o, k, v) == [x \in (DOMAIN o) \cup {k} |-> IF x = k THEN v ELSE o[x]]
Pop(o, k) == [x \in (DOMAIN o) \ {k} |-> o[x]]

\* OrderState.add
add(o, item_id, qty) ==
    IF qty <= 0 THEN o ELSE Put(o, item_id, Get(o, item_id, 0) + qty)

\* OrderState.set_qty
set_qty(o, item_id, qty) ==
    IF qty <= 0 THEN Pop(o, item_id) ELSE Put(o, item_id, qty)

(***************************************************************************)
(* parse_add_item and its local quantity detector                          *)
(***************************************************************************)
\* "2x" / "x2" forms; 0 for no match
XQty(w) == CASE w \in {"2x", "x2"} -> 2 [] OTHER -> 0

\* the left scan of _qty_near_span from token i down to token lo: -1 for "keep looking"
RECURSIVE QtyLeft(_, _, _)
QtyLeft(toks, i, lo) ==
    IF i < lo THEN -1
    ELSE IF IsDigitTok(toks[i])
         THEN (IF DigitVal(toks[i]) >= 1 /\ DigitVal(toks[i]) <= 20 THEN DigitVal(toks[i]) ELSE 0)
         ELSE IF QTY_WORDS(toks[i]) > 0 THEN QTY_WORDS(toks[i])
              ELSE QtyLeft(toks, i - 1, lo)

\* the right scan of _qty_near_span over tokens i..hi
RECURSIVE QtyRight(_, _, _)
QtyRight(toks, i, hi) ==
    IF i > hi THEN 0
    ELSE IF XQty(toks[i]) > 0 THEN XQty(toks[i]) ELSE QtyRight(toks, i + 1, hi)

\* _qty_near_span: idx is the first token of the span; 0 for None
qty_near_span(toks, idx) ==
    LET left == Max(1, idx - 3)
        right == Min(Len(toks), idx + 1)
        l == QtyLeft(toks, idx - 1, left)
    IN IF l >= 0 THEN l ELSE QtyRight(toks, idx, right)

\* every whole-word occurrence of every alias of at least three characters
Candidates(t) ==
    UNION { { [s |-> i, e |-> i + Len(am[1]) - 1, item |-> am[2], chars |-> AliasChars(am[1])] :
                i \in { j \in 1..(Len(t) - Len(am[1]) + 1) : SubSeq(t, j, j + Len(am[1]) - 1) = am[1] } } :
            am \in { x \in alias_map : AliasChars(x[1]) >= 3 } }

\* candidates.sort(key=(-(length), start)): c sorts before d
SortsBefore(c, d) == c.chars > d.chars \/ (c.chars = d.chars /\ c.s < d.s)

overlaps(c, d) == ~(c.e < d.s \/ d.e < c.s)

\* the loop that keeps the longest non-overlapping spans, one per item id
RECURSIVE ChooseSpans(_, _)
ChooseSpans(cands, chosen) ==
    IF cands = {} THEN chosen
    ELSE LET c == CHOOSE x \in cands : \A y \in cands \ {x} : SortsBefore(x, y)
             skip == (\E i \in 1..Len(chosen) : chosen[i].item = c.item)
                     \/ (\E i \in 1..Len(chosen) : overlaps(c, chosen[i]))
         IN ChooseSpans(cands \ {c}, IF skip THEN chosen ELSE Append(chosen, c))

\* one entry of the result: the local quantity if there is one, else the default
SpanEntry(item_id, local_q, default_q) == <<item_id, IF local_q # 0 THEN local_q ELSE default_q>>

\* the loop over the chosen spans: multi_item makes the default 1 instead of the global q
SpanEntries(t, chosen, q) ==
    [ i \in 1..Len(chosen) |->
        SpanEntry(chosen[i].item, qty_near_span(t, chosen[i].s),
                  IF Cardinality({ chosen[j].item : j \in 1..Len(chosen) }) > 1 THEN 1 ELSE q) ]

\* the aliases are matched on the text as it came, not on its normalized form
parse_add_item_Raw(text, qty) ==
    SpanEntries(text, ChooseSpans(Candidates(text), << >>), Max(1, OrElse(qty, 1)))

\* parse_add_item(menu, text, qty=qty): a list of <<item_id, qty>>
parse_add_item(text, qty) ==
    SpanEntries(norm_simple(text), ChooseSpans(Candidates(norm_simple(text)), << >>),
                Max(1, OrElse(qty, 1)))

(***************************************************************************)
(* Naan keyword parsing and menu helpers                                   *)
(***************************************************************************)
NAAN_TOKENS == {"naan", "nan", "naam"}

PLAIN_LIKE == {"plain", "regular", "normal", "gewoon", "normaal", "standaard",
               "plainer", "plainar", "planar", "plano", "playn", "plean"}

\* _VARIANT_TOKS, in dict order
VariantOrder == <<"garlic", "cheese", "keema", "peshawari">>

VARIANT_TOKS(canonical) ==
    CASE canonical = "garlic" -> {"garlic", "knoflook"}
      [] canonical = "cheese" -> {"cheese", "kaas"}
      [] canonical = "keema" -> {"keema", "kheema"}
      [] canonical = "peshawari" -> {"peshawari"}
      [] OTHER -> {}

\* window(i, 3): the tokens within three positions of token i
Window(toks, i) == { toks[j] : j \in Max(1, i - 3)..Min(Len(toks), i + 3) }

\* the first element of the sequence seq that satisfies Test, or None
FirstSuch(seq, Test(_)) ==
    IF \E i \in 1..Len(seq) : Test(seq[i])
    THEN seq[CHOOSE i \in 1..Len(seq) : Test(seq[i]) /\ \A j \in 1..(i - 1) : ~Test(seq[j])]
    ELSE None

\* _extract_nan_variant_keyword_scoped
extract_nan_variant_keyword_scoped(text) ==
    LET toks == norm_simple(text)
        naan_idxs == { i \in 1..Len(toks) : toks[i] \in NAAN_TOKENS }
        InWin(i, c) == Window(toks, i) \cap VARIANT_TOKS(c) # {}
        Adjacent(c) == \E v \in VARIANT_TOKS(c) :
                          AnyPhrase(toks, {<<v, "naan">>, <<"naan", v>>, <<v, "nan">>, <<"nan", v>>})
    IN IF naan_idxs = {} THEN None
       ELSE IF \E i \in naan_idxs : Window(toks, i) \cap PLAIN_LIKE # {} THEN "plain"
       ELSE IF \E i \in naan_idxs : \E k \in 1..Len(VariantOrder) : InWin(i, VariantOrder[k])
            THEN LET idx == CHOOSE i \in naan_idxs :
                               /\ \E k \in 1..Len(VariantOrder) : InWin(i, VariantOrder[k])
                               /\ \A j \in naan_idxs :
                                     (\E k \in 1..Len(VariantOrder) : InWin(j, VariantOrder[k])) => i <= j
                     Hit(c) == InWin(idx, c)
                 IN FirstSuch(VariantOrder, Hit)
       ELSE FirstSuch(VariantOrder, Adjacent)

\* _is_nan_item
is_nan_item(item_id) ==
    LET dn == display_name(item_id)
    IN CharIn(dn, "naan") \/ CharIn(dn, "nan") \/ CharIn(dn, "naam")

\* len(label) in characters
LabelChars(item_id) ==
    CASE item_id = "butter_chicken" -> 14
      [] item_id = "lamb_karahi" -> 11
      [] item_id = "naan_plain" -> 3
      [] item_id = "naan_garlic" -> 10
      [] item_id = "lamb_biryani" -> 12
      [] item_id = "chicken_biryani" -> 15
      [] OTHER -> 0

\* prefs of _naan_options_from_menu
NaanPrefs ==
    << {"garlic", "knoflook"},
       {"naan", "nan", "plain", "regular", "normal", "gewoon", "standaard"},
       {"butter", "boter"},
       {"cheese", "kaas"},
       {"keema", "kheema"},
       {"peshawari"} >>

\* score(label) of _naan_options_from_menu
NaanScore(item_id) ==
    LET ll == display_name(item_id)
        hits == { i \in 1..Len(NaanPrefs) : \E t \in NaanPrefs[i] : CharIn(ll, t) }
    IN IF ll \in {<<"nan">>, <<"naan">>} THEN 120
       ELSE IF hits # {}
            THEN 100 - ((CHOOSE i \in hits : \A j \in hits : i <= j) - 1)
            ELSE 0

\* position of an item in name_choices
ChoiceIdx(item_id) == CHOOSE i \in 1..Len(name_choices) : name_choices[i] = item_id

\* the sort key of an option: (score, -len(label)), then the catalogue position (stable sort)
NaanKey(item_id) == <<NaanScore(item_id), LabelChars(item_id), ChoiceIdx(item_id)>>

\* key ka sorts before key kb under reverse=True
NaanKeyBefore(ka, kb) ==
    \/ ka[1] > kb[1]
    \/ (ka[1] = kb[1] /\ ka[2] < kb[2])
    \/ (ka[1] = kb[1] /\ ka[2] = kb[2] /\ ka[3] < kb[3])

\* the elements of S as a sequence, best key first
RECURSIVE SortByKey(_, _)
PutFirst(S, K, first) == <<first>> \o SortByKey(S \ {first}, K)

SortByKey(S, K) ==
    IF S = {} THEN << >>
    ELSE PutFirst(S, K, CHOOSE a \in S : \A b \in S \ {a} : NaanKeyBefore(K[a], K[b]))

\* items.sort(key=(score, -len(label)), reverse=True), stable
SortNaan(S) == SortByKey(S, [a \in S |-> NaanKey(a)])

\* _naan_options_from_menu: the naan item ids, best first
naan_options_from_menu ==
    SortNaan({ name_choices[i] : i \in { j \in 1..Len(name_choices) : is_nan_item(name_choices[j]) } })

\* the score s that _find_naan_item_for_variant gives one option
VariantScore(v, item_id) ==
    LET ll == display_name(item_id)
        AnyIn(T) == \E t \in T : CharIn(ll, t)
    IN (IF v = "plain" /\ ll \in {<<"nan">>, <<"naan">>} THEN 50 ELSE 0)
       + (IF v = "plain" /\ AnyIn({"plain", "regular", "normal", "gewoon", "standaard"}) THEN 20 ELSE 0)
       + (IF v = "garlic" /\ AnyIn({"garlic", "knoflook"}) THEN 25 ELSE 0)
       + (IF v = "butter" /\ AnyIn({"butter", "boter"}) THEN 25 ELSE 0)
       + (IF v = "cheese" /\ AnyIn({"cheese", "kaas"}) THEN 25 ELSE 0)
       + (IF v = "keema" /\ CharIn(ll, "keema") THEN 25 ELSE 0)
       + (IF v = "peshawari" /\ CharIn(ll, "peshawari") THEN 25 ELSE 0)
       + (IF CharIn(ll, v) THEN 8 ELSE 0)

\* the first position that holds the highest score (best_score is replaced only on s > best)
FirstBest(scores) ==
    CHOOSE i \in 1..Len(scores) :
        /\ \A j \in 1..Len(scores) : scores[j] <= scores[i]
        /\ \A j \in 1..(i - 1) : scores[j] < scores[i]

\* the loop of _find_naan_item_for_variant over the options opts
BestOption(variant, opts) ==
    IF variant = None \/ opts = << >> THEN None
    ELSE opts[FirstBest([i \in 1..Len(opts) |-> VariantScore(variant, opts[i])])]

\* _find_naan_item_for_variant: the first option with the highest score
find_naan_item_for_variant(variant) == BestOption(variant, naan_options_from_menu)

\* is there a naan option whose label contains "lamb"
has_lamb_naan ==
    \E i \in 1..Len(naan_options_from_menu) : CharIn(display_name(naan_options_from_menu[i]), "lamb")

\* the variant of _check_naan_request: the scoped keyword, or "plain" for the acoustic alias
\* "lamb" / "lam" of a transcript that mentions naan when the menu has no lamb naan
NaanVariant(t, scoped) ==
    IF scoped = None /\ HasWord(t, {"naan", "nan", "naam"}) /\ HasWord(t, {"lamb", "lam"}) /\ ~has_lamb_naan
    THEN "plain" ELSE scoped

NaanRequest(mentions_nan, variant) ==
    [mentions_nan |-> mentions_nan, has_variant |-> variant # None, variant |-> variant]

\* _check_naan_request: (mentions_nan, has_variant, variant)
check_naan_request(transcript) ==
    NaanRequest(HasWord(norm_simple(transcript), {"naan", "nan", "naam"}),
                NaanVariant(norm_simple(transcript), extract_nan_variant_keyword_scoped(transcript)))

(***************************************************************************)
(* Deterministic guards.  A key that holds an apostrophe can never occur  *)
(* in normalized text: its apostrophe word is kept as one token here.     *)
(***************************************************************************)
\* raw.split(): the words of the raw text, punctuation attached to its word
Words(text) == SelectSeq(LowerSeq(text), LAMBDA w : ~IsPunct(w))

\* _extract_fulfillment_mode (on normalized text)
extract_fulfillment_mode(t) ==
    IF AnyPhrase(t, {<<"pickup">>, <<"pick", "up">>, <<"afhalen">>, <<"ophalen">>}) THEN "pickup"
    ELSE IF AnyPhrase(t, {<<"delivery">>, <<"bezorgen">>, <<"bezorging">>}) THEN "delivery"
    ELSE None

\* _looks_like_stt_prompt_dump
looks_like_stt_prompt_dump(text) ==
    LET t == norm_simple(text)
        commas == Cardinality({ i \in 1..Len(text) : text[i] = "," })
        has_order_verb == \/ AnyPhrase(t, {<<"i", "want">>, <<"i", "would", "like">>, <<"ik", "wil">>})
                          \/ \E v \in {"add", "order", "graag", "bestel", "voeg"} : CharIn(t, v)
    IN IF t = << >> THEN FALSE
       ELSE IF HasPhrase(t, <<"menu", "vocabulary">>) \/ CharIn(t, "languages") \/ CharIn(t, "talen") THEN TRUE
       ELSE commas >= 5 /\ ~has_order_verb

is_obvious_out_of_scope(text) ==
    \E x \in {"weather", "weer", "temperature", "temperatuur", "forecast", "regen", "sunny", "zonnig"} :
        CharIn(norm_simple(text), x)

is_order_summary_query(text) ==
    AnyPhrase(norm_simple(text),
        { <<"what", "is", "the", "order">>, <<"current", "order">>, <<"total", "order">>,
          <<"order", "now">>, <<"order", "summary">>, <<"wat", "is", "de", "order">>,
          <<"wat", "is", "mijn", "bestelling">>, <<"huidige", "bestelling">>,
          <<"wat", "is", "de", "bestelling">>, <<"wat", "heb", "ik", "besteld">> })

is_checkout_intent(text) ==
    AnyPhrase(norm_simple(text),
        { <<"that's", "all">>, <<"thatll", "be", "all">>, <<"that'll", "be", "all">>, <<"all", "good">>,
          <<"all", "set">>, <<"that's", "it">>, <<"thats", "it">>, <<"finished">>, <<"done">>,
          <<"complete">>, <<"klaar">>, <<"dat", "is", "alles">>, <<"order", "is", "complete">>,
          <<"place", "the", "order">>, <<"confirm", "the", "order">> })

is_affirm(text) ==
    HasWord(norm_simple(text), {"yes", "yeah", "yep", "ok", "okay", "oke", "sure", "correct",
                                "klopt", "ja", "prima", "graag", "indeed"})

is_negative(text) ==
    AnyPhrase(norm_simple(text),
        { <<"no">>, <<"nope">>, <<"nah">>, <<"nee">>, <<"neen">>, <<"liever", "niet">>,
          <<"incorrect">>, <<"klopt", "niet">>, <<"not", "correct">> })

is_refusal_like(text) ==
    AnyPhrase(norm_simple(text),
        { <<"no">>, <<"nope">>, <<"nah">>, <<"i", "won't">>, <<"i", "will", "not">>, <<"dont">>,
          <<"don't">>, <<"rather", "not">>, <<"nee">>, <<"neen">>, <<"wil", "ik", "niet">>,
          <<"geen">>, <<"liever", "niet">>, <<"weiger">> })

is_done_intent(text) ==
    AnyPhrase(norm_simple(text),
        { <<"that", "will", "be", "all">>, <<"that'll", "be", "all">>, <<"thats", "all">>,
          <<"that's", "all">>, <<"all", "good">>, <<"that's", "it">>, <<"no", "that's", "all">>,
          <<"no", "thats", "all">>, <<"no", "thank", "you">>, <<"no", "thanks">>,
          <<"nothing", "else">>, <<"klaar">>, <<"dat", "is", "alles">>, <<"dat", "was", "alles">>,
          <<"bestelling", "is", "klaar">>, <<"order", "is", "complete">>, <<"order", "complete">> })

is_close_call_intent(text) ==
    AnyPhrase(norm_simple(text),
        { <<"close", "the", "call">>, <<"end", "the", "call">>, <<"hang", "up">>, <<"bye">>,
          <<"goodbye">>, <<"ophangen">>, <<"einde", "gesprek">>, <<"doei">>, <<"dag">> })

is_pickup_delivery_mention(text) ==
    LET t == norm_simple(text)
    IN \/ \E x \in {"pickup", "takeaway", "collection", "afhalen", "ophalen", "meenemen",
                    "bezorgen", "bezorging", "delivery"} : CharIn(t, x)
       \/ HasPhrase(t, <<"pick", "up">>)

is_yes_like(text) ==
    LET t == norm_simple(text)
    IN \/ AnyPhrase(t, { <<"yes">>, <<"yeah">>, <<"yep">>, <<"yup">>, <<"ok">>, <<"okay">>, <<"sure">>,
                         <<"please">>, <<"sounds", "good">>, <<"ja">>, <<"jazeker">>, <<"zeker">>,
                         <<"oke">>, <<"prima">>, <<"graag">> })
       \/ \E y \in {"top", "toppie", "okidoki"} : CharIn(t, y)

is_total_amount_query(text) ==
    AnyPhrase(norm_simple(text),
        { <<"total", "amount">>, <<"total", "price">>, <<"total", "cost">>, <<"how", "much">>,
          <<"what", "is", "the", "total">>, <<"totaal", "bedrag">>, <<"totaalprijs">>,
          <<"totale", "prijs">>, <<"hoeveel", "kost">>, <<"wat", "is", "het", "totaal">> })

is_order_complete_intent(text) ==
    AnyPhrase(norm_simple(text),
        { <<"order", "is", "complete">>, <<"that's", "all">>, <<"that", "is", "all">>, <<"done">>,
          <<"finish">>, <<"finished">>, <<"complete", "the", "order">>, <<"place", "the", "order">>,
          <<"dat", "is", "alles">>, <<"klaar">>, <<"afronden">>, <<"bestelling", "is", "klaar">>,
          <<"rond", "de", "bestelling", "af">> })

is_ordering_intent_global(text) ==
    LET words == Words(text)
    IN IF words = << >> THEN FALSE
       ELSE IF Len(words) = 1
            THEN LowerSeq(text) \in {<<"bestellen">>, <<"order">>, <<"ordering">>, <<"start">>, <<"begin">>}
            ELSE AnyPhrase(norm_simple(text),
                    { <<"ik", "wil", "bestellen">>, <<"wil", "bestellen">>, <<"i", "want", "to", "order">>,
                      <<"i'd", "like", "to", "order">>, <<"i", "would", "like", "to", "order">> })

\* _is_language_command: "nl", "en" or None
is_language_command(text) ==
    LET t == norm_simple(text)
    IN IF HasWord(t, {"nederlands", "dutch"}) THEN "nl"
       ELSE IF HasWord(t, {"english", "engels"}) THEN "en"
       ELSE None

\* s.startswith(p) on token sequences
StartsWith(s, p) == Len(s) >= Len(p) /\ SubSeq(s, 1, Len(p)) = p

\* str.strip(" .,") on a token sequence
RECURSIVE StripPunct(_)
StripPunct(s) ==
    IF s = << >> THEN s
    ELSE IF Head(s) \in {".", ","} THEN StripPunct(Tail(s))
    ELSE IF s[Len(s)] \in {".", ","} THEN StripPunct(SubSeq(s, 1, Len(s) - 1))
    ELSE s

\* _clean_customer_name
clean_customer_name(text) ==
    LET tn == norm_simple(text)
        words == SelectSeq(text, LAMBDA w : ~IsPunct(w))
        prefixes == << <<"my", "name", "is">>, <<"name", "is">>, <<"i", "am">>, <<"its">>,
                       <<"mijn", "naam", "is">>, <<"ik", "ben">>, <<"naam", "is">> >>
        Hit(p) == StartsWith(tn, p) /\ tn # p
        found == \E i \in 1..Len(prefixes) : Hit(prefixes[i])
        pref == FirstSuch(prefixes, Hit)
    IN IF found /\ Len(words) > Len(pref)
       THEN StripPunct(SubSeq(text, Len(pref) + 1, Len(text)))
       ELSE StripPunct(text)

\* _looks_like_name_answer
looks_like_name_answer(text) ==
    LET tn == norm_simple(text)
        bad == { <<"yes">>, <<"yeah">>, <<"ok">>, <<"okay">>, <<"sure">>, <<"ja">>, <<"oke">>,
                 <<"prima">>, <<"good">>, <<"thanks">>, <<"thank", "you">> }
    IN /\ tn # << >>
       /\ ~is_refusal_like(text)
       /\ ~is_order_summary_query(text)
       /\ ~is_ordering_intent_global(text)
       /\ ~HasWord(text, {"?"})
       /\ tn \notin bad
       /\ Len(Words(text)) <= 3

\* _parse_fulfillment
parse_fulfillment(text) ==
    LET t == norm_simple(text)
    IN IF \/ \E x \in {"pickup", "takeaway", "collection", "afhalen", "ophalen", "meenemen", "togo"} :
                CharIn(t, x)
          \/ AnyPhrase(t, {<<"pick", "up">>, <<"to", "go">>})
       THEN "pickup"
       ELSE IF \E x \in {"delivery", "deliver", "bezorgen", "bezorging"} : CharIn(t, x) THEN "delivery"
       ELSE None

\* OpenAIClient.fast_yes_no: an exact match of the stripped, lower-cased reply
fast_yes_no(text) ==
    LET t == LowerSeq(text)
    IN IF t \in { <<"yes">>, <<"yeah">>, <<"yep">>, <<"ok">>, <<"okay">>, <<"sure">>, <<"ja">>,
                  <<"prima">>, <<"oke">> } THEN "AFFIRM"
       ELSE IF t \in { <<"no">>, <<"nope">>, <<"nee">> } THEN "NEGATE"
       ELSE None

\* _dispatcher_route
dispatcher_route(text) ==
    LET t == norm_simple(text)
        AnyIn(K) == \E k \in K : CharIn(t, k)
    IN IF AnyIn({"tesisat", "tamir", "boru"}) THEN "abt"
       ELSE IF AnyIn({"loodgieter", "lekkage", "spoed", "water", "leiding", "verstopping", "afvoer",
                      "plumber", "leak", "burst", "pipe", "flood", "repair", "emergency"}) THEN "abt"
       ELSE IF AnyIn({"eten", "bestellen", "indiaas", "restaurant", "afhalen", "bezorgen",
                      "food", "hungry", "order", "indian"}) THEN "taj_mahal"
       ELSE None

\* detect_explicit_remove_intent
detect_explicit_remove_intent(text, lang) ==
    LET t == norm_simple(text)
    IN IF lang = "nl"
       THEN \/ \E m \in {"verwijder", "schrap", "annuleer", "eraf", "minus"} : CharIn(t, m)
            \/ AnyPhrase(t, {<<"haal", "weg">>, <<"niet", "meer">>, <<"laat", "maar">>, <<"kan", "weg">>})
       ELSE \/ \E m \in {"remove", "cancel", "delete", "drop", "minus"} : CharIn(t, m)
            \/ AnyPhrase(t, {<<"take", "off">>, <<"no", "longer">>})

\* extract_quantity_1_to_10: digits first, then the first number word; 0 for None
extract_quantity_1_to_10(text) ==
    LET t == norm_simple(text)
        IsDig(w) == IsDigitTok(w)
        IsWord(w) == QTY_WORDS(w) > 0 /\ w \notin {"a", "an"}
        d == FirstSuch(t, IsDig)
        w == FirstSuch(t, IsWord)
    IN IF d # None THEN DigitVal(d) ELSE IF w # None THEN QTY_WORDS(w) ELSE 0

(***************************************************************************)
(* SessionState                                                            *)
(***************************************************************************)
\* the tenant a session is opened for
Tenants == {"taj_mahal", "voxeron_main"}

\* SessionState after _handle_ws has loaded the tenant context.  turn_id and
\* nan_prompt_count are only ever written, no branch reads them: they are left out
InitSession(tenant) ==
    [ tenant_ref |-> tenant,
      menu |-> (tenant = "taj_mahal"),
      lang |-> "en",
      lang_locked |-> TRUE,
      phase |-> IF tenant = "voxeron_main" THEN "dispatcher" ELSE "language_select",
      order |-> EmptyOrder,
      is_processing |-> FALSE,
      pending_choice |-> None,
      pending_qty |-> 1,
      pending_qty_hold |-> 0,
      pending_qty_deadline |-> 0,
      pending_fulfillment |-> FALSE,
      fulfillment_mode |-> None,
      pending_name |-> FALSE,
      customer_name |-> << >>,
      order_complete |-> FALSE,
      pending_confirm |-> FALSE,
      order_finalized |-> FALSE,
      pending_cart_check |-> FALSE,
      cart_check_retries |-> 0,
      pending_prefix |-> << >>,
      pending_prefix_deadline |-> 0,
      offered_item_id |-> None,
      offered_ts |-> 0,
      last_added |-> {},
      last_added_ts |-> 0,
      last_activity_ts |-> 0,
      last_agent_speech_end_ts |-> 0,
      last_user_utter_end_ts |-> 0,
      is_speaking |-> FALSE,
      proc_task |-> None,
      tts_task |-> None ]

(***************************************************************************)
(* process_utterance, cut at its await points.  A segment is the code     *)
(* that runs between two awaits; it returns the session state s, the      *)
(* coroutine's locals l (pc is the point to resume at) and the awaitable  *)
(* aw the coroutine suspends on.                                           *)
(***************************************************************************)
\* what transcribe_pcm raised
STT_FAIL == <<"[stt error]">>

\* the locals of a process_utterance coroutine that has not started
ProcLocals0 ==
    [pc |-> "start", tr |-> << >>, mode |-> "normal", txt |-> << >>, ret |-> "ret",
     arg |-> None, br |-> "none"]

R(s, l, pc, aw) == [s |-> s, l |-> [l EXCEPT !.pc = pc], aw |-> aw]

\* the fixed replies, one token each
Say(label) == <<label>>

\* the offer phrases of _speak
is_offer(text) ==
    AnyPhrase(LowerSeq(text),
        { <<"would", "you", "like", "to", "add">>, <<"would", "you", "like", "me", "to", "add">>,
          <<"do", "you", "want", "to", "add">>, <<"shall", "i", "add">>, <<"should", "i", "add">>,
          <<"want", "me", "to", "add">> })

\* the offer capture of _speak: exactly one item named by an offer phrase is remembered
CaptureOffer(s, parsed, now) ==
    IF Cardinality({ parsed[i][1] : i \in 1..Len(parsed) }) = 1
    THEN [s EXCEPT !.offered_item_id = parsed[1][1], !.offered_ts = now]
    ELSE s

\* _speak up to its first await (send_agent_text): offer capture
Speak(s, l, text, ret, now) ==
    R(IF s.menu /\ is_offer(text) THEN CaptureOffer(s, parse_add_item(text, 1), now) ELSE s,
      [l EXCEPT !.txt = text, !.ret = ret], "speak_tts", "send_agent_text")

\* await clear_thinking; await _speak(text); return
ClearSpeak(s, l, text) == R(s, [l EXCEPT !.txt = text], "cs", "clear_thinking")

\* finally: st.is_processing = False
Fin(s, l) == R([s EXCEPT !.is_processing = FALSE], l, "done", "done")

\* an exception escapes to "except Exception": await clear_thinking, then finally
Raise(s, l) == R(s, l, "exc_handler", "clear_thinking")

\* a turn that starts whether or not another one is being processed
SegStart_NoGuard(s, l) ==
    R([s EXCEPT !.is_processing = TRUE], l, "stt", "send_thinking")

\* lines 1212-1218: the guard, then send_thinking
SegStart(s, l) ==
    IF s.is_processing THEN R(s, l, "done", "done")
    ELSE R([s EXCEPT !.is_processing = TRUE], l, "stt", "send_thinking")

\* lines 1225-1302: the STT mode is chosen from the slots before the request is made
SegStt(s, l) ==
    LET mode == IF s.pending_name THEN "name"
                ELSE IF s.pending_fulfillment THEN "fulfillment"
                ELSE IF s.pending_choice = "nan_variant" THEN "nan_variant"
                ELSE "normal"
    IN R(s, [l EXCEPT !.mode = mode], "after_stt", "stt")

\* lines 1248-1261: the fulfillment slot keeps only pickup/delivery
FulfillmentTranscript(t) ==
    LET tn == norm_simple(t)
    IN IF t = << >> THEN t
       ELSE IF AnyPhrase(tn, {<<"pickup">>, <<"pick", "up">>, <<"afhalen">>, <<"afhaal">>}) THEN <<"pickup">>
       ELSE IF AnyPhrase(tn, {<<"delivery">>, <<"bezorgen">>, <<"bezorging">>, <<"thuisbezorg">>})
            THEN <<"delivery">>
       ELSE IF AnyPhrase(tn, {<<"ik", "wil", "bestellen">>, <<"bestellen">>, <<"i", "want", "to", "order">>,
                              <<"want", "to", "order">>, <<"place", "an", "order">>}) THEN << >>
       ELSE t

RECURSIVE DropLeadSeps(_)
DropLeadSeps(t) ==
    IF t # << >> /\ Head(t) \in {",", ".", "!"} THEN DropLeadSeps(Tail(t)) ELSE t

\* re.match(r"^(w1|w2|...)\b[\s,!.:-]+(.+)$", t0_low)
PrefixMatch(t, W) ==
    /\ Len(t) >= 2
    /\ Lower(t[1]) \in W
    /\ t[2] # "?"
    /\ DropLeadSeps(Tail(t)) # << >>

\* m.group(2).strip()
PrefixRest(t) == DropLeadSeps(Tail(LowerSeq(t)))

\* has_action_words of the cart check: most keys start with a space
has_action_words(text) ==
    LET t == LowerSeq(text)
        later == SubSeq(t, 2, Len(t))
    IN \/ HasWord(later, {"add", "extra", "forgot", "change", "remove", "cancel",
                          "voeg", "vergeten", "verander", "maak", "annuleer"})
       \/ AnyPhrase(later, {<<"instead", "of">>, <<"make", "it">>, <<"nog", "een">>,
                            <<"in", "plaats", "van">>, <<"haal", "weg">>})
       \/ CharIn(t, "another")

\* a cart check that keeps asking, however often it has asked
CartCheckRetry_NoGiveUp(s, l, retries, now) ==
    IF retries = 2 THEN Speak(s, l, Say("say_yes_or_no"), "ret", now)
    ELSE Speak(s, l, Say("cart_check"), "ret", now)

\* lines 1421-1444 and 1449-1472: what the cart check does with its retry count
CartCheckRetry(s, l, retries, now) ==
    IF retries >= 3
    THEN LET s1 == [s EXCEPT !.pending_cart_check = FALSE, !.cart_check_retries = 0]
         IN IF s1.fulfillment_mode = None
            THEN Speak([s1 EXCEPT !.pending_fulfillment = TRUE], l, Say("pickup_or_delivery"), "ret", now)
            ELSE Speak(s1, l, Say("anything_else"), "ret", now)
    ELSE IF retries = 2 THEN Speak(s, l, Say("say_yes_or_no"), "ret", now)
    ELSE Speak(s, l, Say("cart_check"), "ret", now)

\* lines 1474-1499: empty transcript, or normalisation and send_user_text
SegTranscript(s, l, tr, now) ==
    IF tr = << >> THEN ClearSpeak(s, [l EXCEPT !.tr = tr, !.br = "empty"], Say("didnt_catch"))
    ELSE LET t1 == [i \in 1..Len(tr) |-> IF s.lang = "en" /\ Lower(tr[i]) = "en" THEN "and" ELSE tr[i]]
             t2 == [i \in 1..Len(t1) |-> IF Lower(t1[i]) = "lam" THEN "lamb" ELSE t1[i]]
         IN R([s EXCEPT !.last_activity_ts = now], [l EXCEPT !.tr = t2], "main", "send_user_text")

\* lines 1378-1419: the reply to the cart check asks for a change of the Order
CartActionable(s, t2, nan2) ==
    \/ has_action_words(t2)
    \/ (s.menu /\ parse_add_item(t2, 1) # << >>)
    \/ (s.menu /\ nan2.mentions_nan
        /\ (CharIn(LowerSeq(t2), "naan") \/ CharIn(LowerSeq(t2), "nan") \/ nan2.has_variant))

\* lines 1352-1472: the cart check on the answer yn and the rest t2 of the transcript
CartCheckAnswer(s, cleared, l, t2, yn, now) ==
    IF yn = "AFFIRM" THEN ClearSpeak(cleared, [l EXCEPT !.tr = t2, !.br = "cart_yes"], Say("anything_else"))
    ELSE IF yn = "NEGATE" THEN R(cleared, [l EXCEPT !.tr = t2, !.br = "cart_no"], "cc_neg", "clear_thinking")
    ELSE IF CartActionable(s, t2, check_naan_request(t2))
         THEN IF s.cart_check_retries >= 2
              THEN CartCheckRetry(cleared, [l EXCEPT !.tr = t2, !.br = "cart_action"],
                                  s.cart_check_retries, now)
              ELSE Raise(cleared, [l EXCEPT !.tr = t2, !.br = "cart_action"])
         ELSE R([s EXCEPT !.cart_check_retries = s.cart_check_retries + 1],
                [l EXCEPT !.tr = t2, !.br = "cart_retry"], "cc_retry", "clear_thinking")

\* lines 1322-1472: the cart check
SegCartCheck(s, l, tr, now) ==
    LET yes == PrefixMatch(tr, {"yes", "yeah", "yep", "ok", "okay", "sure", "ja", "oke", "prima"})
        no == ~yes /\ PrefixMatch(tr, {"no", "nope", "nah", "nee"})
    IN CartCheckAnswer(s, [s EXCEPT !.pending_cart_check = FALSE, !.cart_check_retries = 0], l,
                       IF yes \/ no THEN PrefixRest(tr) ELSE tr,
                       IF yes THEN "AFFIRM" ELSE IF no THEN "NEGATE" ELSE fast_yes_no(tr),
                       now)

\* lines 1305-1320: a pending prefix ("I'd like") is merged into the transcript that follows it
PrefixActive(s, now) == s.pending_prefix # << >> /\ now < s.pending_prefix_deadline

MergedTranscript(s, t0, now) == IF PrefixActive(s, now) THEN s.pending_prefix \o t0 ELSE t0

ConsumePrefix(s, now) ==
    IF PrefixActive(s, now) THEN [s EXCEPT !.pending_prefix = << >>, !.pending_prefix_deadline = 0] ELSE s

SttTranscript(l, raw) == IF l.mode = "fulfillment" THEN FulfillmentTranscript(raw) ELSE raw

SegMerged(s1, l, t1, now) ==
    IF LowerSeq(t1) \in { <<"i'd", "like">>, <<"i", "would", "like">>, <<"i", "want">>,
                          <<"i'd", "like", "to">>, <<"i", "want", "to">> }
    THEN R([s1 EXCEPT !.pending_prefix = t1, !.pending_prefix_deadline = now + 2],
           [l EXCEPT !.tr = t1, !.br = "prefix"], "ret", "clear_thinking")
    ELSE IF s1.pending_cart_check THEN SegCartCheck(s1, l, t1, now)
    ELSE SegTranscript(s1, l, t1, now)

\* lines 1305-1499: from the STT result to the first await
SegAfterStt(s, l, inp, now) ==
    SegMerged(ConsumePrefix(s, now), l,
              MergedTranscript(s, SttTranscript(l, IF inp = STT_FAIL THEN << >> ELSE inp), now), now)

\* lines 1367-1376: after the cart check was denied
SegCartNo(s, l, now) ==
    IF l.tr # << >> THEN SegTranscript(s, l, l.tr, now)
    ELSE Speak(s, l, Say("what_change"), "ret", now)

\* a rollback that stores the new quantity whatever it is
RollbackOne_KeepZero(o, rid, rq) ==
    Put(o, rid, Max(0, Get(o, rid, 0) - rq))

\* lines 1511-1517: roll one earlier add back
RollbackOne(o, rid, rq) ==
    LET newq == Max(0, Get(o, rid, 0) - rq)
    IN IF newq <= 0 THEN Pop(o, rid) ELSE Put(o, rid, newq)

RECURSIVE RollbackAll(_, _)
RollbackAll(o, la) ==
    IF la = {} THEN o
    ELSE LET x == CHOOSE y \in la : TRUE
         IN RollbackAll(RollbackOne(o, x[1], x[2]), la \ {x})

\* t_low.startswith(("no", "nee", "noo", "nope")) over the vocabulary
StartsWithNo(text) ==
    text # << >> /\ Lower(text[1]) \in {"no", "nope", "nee", "not", "normal", "nothing"}

\* lines 1505-1533: fast correction of the last add
IsCorrection(s, tr, now) ==
    /\ s.menu /\ s.last_added # {} /\ (now - s.last_added_ts) < 12
    /\ StartsWithNo(tr)
    /\ parse_add_item(tr, 1) # << >>

Correction(s, tr, now) ==
    LET target_adds == parse_add_item(tr, 1)
        corr_qty == OrElse(extract_qty_first(tr, "en"),
                           OrElse(extract_qty_first(tr, "nl"), OrElse(target_adds[1][2], 1)))
        tid == target_adds[1][1]
        corr_qty_i == Max(1, corr_qty)
    IN [s EXCEPT !.order = add(RollbackAll(s.order, s.last_added), tid, corr_qty_i),
                 !.last_added = {<<tid, corr_qty_i>>},
                 !.last_added_ts = now,
                 !.offered_item_id = None,
                 !.offered_ts = 0]

\* lines 1536-1558: a generic confirmation accepts the last offered item
IsOfferAccept(s, tr, now) ==
    LET low == norm_simple(tr)
    IN /\ s.menu /\ s.offered_item_id # None /\ (now - s.offered_ts) < 25
       /\ parse_add_item(tr, 1) = << >>
       /\ \/ HasWord(low, {"yes", "yeah", "yep", "sure", "please", "ok", "okay", "ja", "jazeker",
                           "correct", "klopt"})
          \/ CharIn(low, "add") \/ CharIn(low, "toevoeg")

OfferAccept(s, tr, now) ==
    LET q == OrElse(extract_qty_first(tr, "en"), OrElse(extract_qty_first(tr, "nl"), 1))
        qi == Max(1, q)
    IN [s EXCEPT !.order = add(s.order, s.offered_item_id, qi),
                 !.last_added = {<<s.offered_item_id, qi>>},
                 !.last_added_ts = now,
                 !.offered_item_id = None,
                 !.offered_ts = 0]

\* _is_dispatcher
is_dispatcher(s) == s.phase = "dispatcher" \/ s.tenant_ref = "voxeron_main"

\* lines 1152-1158: the slot hears "lamb", "klein" and their kin as "plain"
SlotTokens(tr) ==
    [i \in 1..Len(norm_simple(tr)) |->
        IF norm_simple(tr)[i] \in {"lamb", "lam", "lamsfilet", "lams", "klein", "klijn"}
        THEN "plain" ELSE norm_simple(tr)[i]]

\* lines 1160-1175: the scoped keyword, else a bare variant word
SlotKeyword(t_norm, scoped) ==
    IF scoped # None THEN scoped
    ELSE IF HasWord(t_norm, {"plain", "normal", "regular", "gewoon", "simpel", "standard"}) THEN "plain"
    ELSE IF HasWord(t_norm, {"garlic", "knoflook"}) THEN "garlic"
    ELSE IF HasWord(t_norm, {"cheese", "kaas"}) THEN "cheese"
    ELSE IF HasWord(t_norm, {"peshawari"}) THEN "peshawari"
    ELSE IF HasWord(t_norm, {"keema"}) THEN "keema"
    ELSE None

\* _handle_pending_nan_variant: the variant heard in the slot, or None
SlotVariant(tr) == SlotKeyword(SlotTokens(tr), extract_nan_variant_keyword_scoped(SlotTokens(tr)))

\* the resolved variant is added once, whatever quantity the slot holds
SlotAnswer_OneNaan(s, l, now, t_low, variant, item_id) ==
    IF variant # None /\ item_id # None
    THEN R([s EXCEPT !.order = add(s.order, item_id, 1), !.pending_choice = None, !.pending_qty = 1],
           [l EXCEPT !.br = "nv_resolved"], "cart_check", "clear_thinking")
    ELSE Speak(s, [l EXCEPT !.br = "nv_reprompt"], Say("naan_prompt"), "ret", now)

\* lines 1177-1208: a question about the naan, the resolved variant, or the prompt again
SlotAnswer(s, l, now, t_low, variant, item_id) ==
    IF (CharIn(t_low, "spicy") \/ CharIn(t_low, "pittig") \/ CharIn(t_low, "heet"))
       /\ (CharIn(t_low, "naan") \/ CharIn(t_low, "nan"))
    THEN Speak(s, [l EXCEPT !.br = "nv_question"], Say("naan_not_spicy"), "ret", now)
    ELSE IF variant # None /\ item_id # None
         THEN R([s EXCEPT !.order = add(s.order, item_id, Max(1, OrElse(s.pending_qty, 1))),
                          !.pending_choice = None,
                          !.pending_qty = 1],
                [l EXCEPT !.br = "nv_resolved"], "cart_check", "clear_thinking")
         ELSE Speak(s,
                    [l EXCEPT !.br = "nv_reprompt"], Say("naan_prompt"), "ret", now)

SlotItem(s, l, now, t_low, variant) ==
    SlotAnswer(s, l, now, t_low, variant, find_naan_item_for_variant(variant))

\* _handle_pending_nan_variant up to its first await
handle_pending_nan_variant(s, l, now) ==
    SlotItem(s, l, now, SlotTokens(l.tr), SlotVariant(l.tr))

\* lines 1197-1204, 2049-2058, 2075-2080: latch the cart check and read the cart back
SegCartCheckPrompt(s, l, now) ==
    Speak([s EXCEPT !.pending_cart_check = TRUE], l, Say("cart_check"), "ret", now)

\* a fulfillment slot that stays latched when it hands over to the name slot
SegFulfillment_KeepSlot(s, l, now) ==
    LET mode == parse_fulfillment(l.tr)
    IN IF mode = "pickup" /\ s.customer_name = << >>
       THEN Speak([s EXCEPT !.fulfillment_mode = mode, !.pending_name = TRUE], l, Say("what_name"), "ret", now)
       ELSE Speak(s, l, Say("pickup_or_delivery"), "ret", now)

\* lines 1674-1692: the fulfillment slot after clear_thinking
SegFulfillment(s, l, now) ==
    LET mode == parse_fulfillment(l.tr)
        s1 == [s EXCEPT !.pending_fulfillment = FALSE, !.fulfillment_mode = mode]
    IN IF mode = None THEN Speak(s, l, Say("pickup_or_delivery"), "ret", now)
       ELSE IF mode = "pickup"
            THEN IF s1.customer_name # << >> THEN Speak(s1, l, Say("great_anything_else"), "ret", now)
                 ELSE Speak([s1 EXCEPT !.pending_name = TRUE], l, Say("what_name"), "ret", now)
       ELSE Speak(s1, l, Say("delivery_address"), "ret", now)

\* lines 1697-1727: the name slot after clear_thinking
SegName(s, l, now) ==
    LET name_clean == clean_customer_name(l.tr)
    IN IF is_order_summary_query(l.tr) /\ s.menu THEN Speak(s, l, Say("order_and_name"), "ret", now)
       ELSE IF is_obvious_out_of_scope(l.tr) THEN Speak(s, l, Say("what_name"), "ret", now)
       ELSE IF is_refusal_like(l.tr) THEN Speak(s, l, Say("what_name"), "ret", now)
       ELSE IF ~looks_like_name_answer(name_clean) THEN ClearSpeak(s, l, Say("what_name"))
       ELSE Speak([s EXCEPT !.customer_name = name_clean, !.pending_name = FALSE],
                  l, Say("thank_you_name"), "ret", now)

\* lines 1922-1932
is_questionish(tr) ==
    LET norm_q == norm_simple(tr)
    IN \/ HasWord(tr, {"?"})
       \/ /\ Len(norm_q) >= 2
          /\ norm_q[1] \in {"is", "are", "which", "what", "how", "can", "could", "do", "does",
                            "wat", "welke", "hoe", "kan", "kun", "zijn"}

has_explicit_add_intent(tr) ==
    AnyPhrase(norm_simple(tr),
        { <<"i", "want">>, <<"i'd", "like">>, <<"i", "would", "like">>, <<"can", "i", "have">>,
          <<"please", "add">>, <<"add">>, <<"order">>, <<"ik", "wil">>, <<"graag">>, <<"bestel">>,
          <<"voeg">>, <<"mag", "ik">> })

\* the checkout phrases of lines 2160-2166
CheckoutPhrases ==
    { <<"that's", "all">>, <<"that", "is", "all">>, <<"thats", "all">>, <<"that's", "it">>,
      <<"thats", "it">>, <<"nothing", "else">>, <<"no", "more">>, <<"done">>, <<"finish">>,
      <<"finalize">>, <<"checkout">>, <<"check", "out">>, <<"place", "the", "order">>, <<"confirm">>,
      <<"complete", "the", "order">>, <<"dat", "is", "alles">>, <<"dat", "was", "alles">>,
      <<"niks", "meer">>, <<"niets", "meer">>, <<"klaar">>, <<"afronden">>, <<"rond", "af">>,
      <<"afrekenen">>, <<"bevestig">>, <<"bestelling", "plaatsen">> }

\* _qty_from_tok on a token the split regex accepts; 0 for no quantity token
SplitQtyTok(w) ==
    IF IsDigitTok(w) THEN (IF DigitVal(w) >= 1 /\ DigitVal(w) <= 20 THEN DigitVal(w) ELSE 0)
    ELSE IF w \in {"one", "two", "three", "four", "five", "een", "twee", "drie", "vier", "vijf"}
         THEN QTY_WORDS(w)
         ELSE 0

IsSplitQtyTok(w) ==
    IsDigitTok(w) \/ w \in {"one", "two", "three", "four", "five", "een", "twee", "drie", "vier", "vijf"}

\* the skip k (0..2 words) with which qty (\w+ ){k} variant naan matches at token i; -1 for no match
SplitMatchAt(t, i, V) ==
    LET Ok(k) == /\ i + k + 2 <= Len(t)
                 /\ IsSplitQtyTok(t[i])
                 /\ \A j \in (i + 1)..(i + k) : ~IsPunct(t[j])
                 /\ t[i + k + 1] \in V
                 /\ t[i + k + 2] \in {"naan", "nan"}
    IN IF Ok(0) THEN 0 ELSE IF Ok(1) THEN 1 ELSE IF Ok(2) THEN 2 ELSE -1

\* re.findall(...)[-1][0]: the quantity token of the last non-overlapping match; 0 for none
RECURSIVE LastSplitQty(_, _, _, _)
LastSplitQty(t, i, V, last) ==
    IF i > Len(t) THEN last
    ELSE LET k == SplitMatchAt(t, i, V)
         IN IF k >= 0 THEN LastSplitQty(t, i + k + 3, V, SplitQtyTok(t[i]))
            ELSE LastSplitQty(t, i + 1, V, last)

\* lines 1984-1995: the transcript names naan, a plain variant and garlic
SplitWords(t_low) ==
    LET has_garlic == CharIn(t_low, "garlic") \/ CharIn(t_low, "knoflook")
    IN /\ (CharIn(t_low, "naan") \/ CharIn(t_low, "nan") \/ CharIn(t_low, "naam"))
       /\ has_garlic
       /\ \/ \E x \in {"plain", "regular", "normal", "gewoon", "normaal", "standaard"} : CharIn(t_low, x)
          \/ (AnyPhrase(SubSeq(t_low, 2, Len(t_low)),
                        {<<"one", "naan">>, <<"1", "naan">>, <<"one", "nan">>, <<"1", "nan">>})
              /\ has_garlic)

\* line 1997: the menu has both variants, as two items
SplitItems(plain_iid, garlic_iid) ==
    plain_iid # None /\ garlic_iid # None /\ plain_iid # garlic_iid

\* lines 1984-2058: "one plain naan and one garlic naan"
IsSplit(tr) ==
    /\ SplitWords(LowerSeq(tr))
    /\ SplitItems(find_naan_item_for_variant("plain"), find_naan_item_for_variant("garlic"))

\* lines 2012-2035: the quantity of the plain naans: its own, else the first quantity token
SplitPlainQty(t_low, p) ==
    IF p # 0 THEN p
    ELSE IF FirstSuch(t_low, IsSplitQtyTok) # None THEN SplitQtyTok(FirstSuch(t_low, IsSplitQtyTok)) ELSE 0

\* lines 2037-2047: both variants are set, every other naan is dropped from the Order
SplitSet(s, plain_iid, garlic_iid, p2, g) ==
    LET o2 == set_qty(set_qty(s.order, plain_iid, OrElse(p2, 1)), garlic_iid, OrElse(g, 1))
    IN [s EXCEPT !.order = [k \in { x \in DOMAIN o2 : ~(is_nan_item(x) /\ x \notin {plain_iid, garlic_iid}) }
                               |-> o2[k]],
                 !.pending_choice = None, !.pending_qty = 1]

SplitQtys(s, t_low, plain_iid, garlic_iid) ==
    SplitSet(s, plain_iid, garlic_iid,
             SplitPlainQty(t_low, LastSplitQty(t_low, 1, {"plain", "regular", "normal", "gewoon",
                                                          "normaal", "standaard"}, 0)),
             LastSplitQty(t_low, 1, {"garlic", "knoflook"}, 0))

Split(s, tr) ==
    SplitQtys(s, LowerSeq(tr), find_naan_item_for_variant("plain"), find_naan_item_for_variant("garlic"))

\* lines 2061-2080: a naan quantity update that bypasses the variant slot
IsNaanQtyUpdate(s, tr) ==
    LET t_low == LowerSeq(tr)
        later == SubSeq(t_low, 2, Len(t_low))
    IN /\ (HasWord(later, {"naan"}) \/ CharIn(t_low, "nan"))
       /\ \/ AnyPhrase(t_low, {<<"instead", "of">>, <<"make", "it">>, <<"in", "plaats", "van">>,
                               <<"doe", "er">>, <<"maak", "er">>, <<"maak", "het">>})
          \/ CharIn(t_low, "change") \/ CharIn(t_low, "into")
       /\ extract_quantity_1_to_10(tr) >= 1
       /\ Cardinality({ iid \in DOMAIN s.order : is_nan_item(iid) }) = 1

NaanQtyUpdate(s, tr) ==
    LET iid == CHOOSE x \in DOMAIN s.order : is_nan_item(x)
    IN [s EXCEPT !.order = Put(s.order, iid, extract_quantity_1_to_10(tr)),
                 !.pending_choice = None, !.pending_qty = 1]

\* for item_id, q in adds: st.order.add(item_id, q), except for the ids in skip
RECURSIVE AddAll(_, _, _)
AddAll(o, adds, skip) ==
    IF adds = << >> THEN o
    ELSE AddAll(IF Head(adds)[1] \notin skip THEN add(o, Head(adds)[1], Head(adds)[2]) ELSE o,
                Tail(adds), skip)

\* DeterministicParser._norm replaces "pick up" and "take away" before punctuation is removed
RECURSIVE UnifyVariants(_)
UnifyVariants(t) ==
    IF Len(t) < 2 THEN t
    ELSE IF SubSeq(t, 1, 2) = <<"pick", "up">> THEN <<"pickup">> \o UnifyVariants(SubSeq(t, 3, Len(t)))
    ELSE IF SubSeq(t, 1, 2) = <<"take", "away">> THEN <<"takeaway">> \o UnifyVariants(SubSeq(t, 3, Len(t)))
    ELSE <<Head(t)>> \o UnifyVariants(Tail(t))

\* DeterministicParser._norm: lower case, the two unified variants, then punctuation to
\* spaces and white space collapsed
parser_norm(text) == norm_simple(UnifyVariants(LowerSeq(text)))

\* DeterministicParser.__init__: the alias table with its keys normalized, empty keys dropped
parser_alias_map ==
    { <<parser_norm(am[1]), am[2]>> : am \in { a \in alias_map : parser_norm(a[1]) # << >> } }

\* orchestrator.parser_types: ParserStatus and ReasonCode, the enums DeterministicParser uses
OrchestratorStatusMatch == "match"
OrchestratorStatusNoMatch == "no_match"
EXACT_ALIAS_MATCH == "exact_alias_match"
NO_ALIAS_FOUND == "no_alias_found"
EMPTY_INPUT == "empty_input"

\* parser.types: ParserStatus, the enum CognitiveOrchestrator.decide compares with
ParserStatusMatch == "MATCH"
ParserStatusNoMatch == "NO_MATCH"

\* DeterministicParser._result; no target of the alias table carries the __INTENT__: or
\* __VALUE__: prefix, so _classify gives kind ENTITY and the target as the entity
ParserResult(status, reason, entity) ==
    [status |-> status, reason |-> reason, matched_entity |-> entity,
     matched_kind |-> "entity", matched_value |-> None]

\* DeterministicParser.parse: an exact lookup of the normalized utterance, and nothing else
parse(utterance) ==
    LET norm == parser_norm(utterance)
        hits == { am \in parser_alias_map : am[1] = norm }
    IN IF norm = << >> THEN ParserResult(OrchestratorStatusNoMatch, EMPTY_INPUT, None)
       ELSE IF hits # {}
            THEN ParserResult(OrchestratorStatusMatch, EXACT_ALIAS_MATCH, (CHOOSE am \in hits : TRUE)[2])
            ELSE ParserResult(OrchestratorStatusNoMatch, NO_ALIAS_FOUND, None)

\* CognitiveOrchestrator._default_responder for a string entity
default_responder(pr) ==
    <<"got", "it", IF pr.matched_entity = None THEN "that" ELSE pr.matched_entity>>

\* self._telemetry.emit_match_failed(...): TelemetryEmitter defines emit_parser_no_match and
\* emit_reason_only, and no emit_match_failed, so the attribute lookup raises
emit_match_failed(telemetry) == "AttributeError"

OrchestratorDecision(route, pr, txt, raised) ==
    [route |-> route, parser_result |-> pr, response_text |-> txt, raised |-> raised]

\* decide, its parser result given: the comparison of line 58, the emission of lines 71-76
\* and the AGENT decision of lines 83-87
DecideOn(pr, telemetry, telemetry_ctx) ==
    IF pr.status = ParserStatusMatch
    THEN OrchestratorDecision("DETERMINISTIC", pr, default_responder(pr), None)
    ELSE IF telemetry # None /\ telemetry_ctx # None /\ pr.status = ParserStatusNoMatch
         THEN OrchestratorDecision(None, pr, None, emit_match_failed(telemetry))
         ELSE OrchestratorDecision("AGENT", pr, None, None)

\* decide, with the status comparisons made in the parser's own enum
decide_OwnEnum(utterance_text, telemetry, telemetry_ctx) ==
    LET pr == parse(utterance_text)
    IN IF pr.status = OrchestratorStatusMatch
       THEN OrchestratorDecision("DETERMINISTIC", pr, default_responder(pr), None)
       ELSE IF telemetry # None /\ telemetry_ctx # None /\ pr.status = OrchestratorStatusNoMatch
            THEN OrchestratorDecision(None, pr, None, emit_match_failed(telemetry))
            ELSE OrchestratorDecision("AGENT", pr, None, None)

\* CognitiveOrchestrator.decide.  The parser's statuses are "match" and "no_match", the
\* ones it is compared with are "MATCH" and "NO_MATCH", and both enums are str enums,
\* which compare by value.
decide(utterance_text, telemetry, telemetry_ctx) ==
    DecideOn(parse(utterance_text), telemetry, telemetry_ctx)

\* _maybe_orchestrator_match_item: an item id, or None; the orchestrator gets no telemetry
maybe_orchestrator_match_item(tr) ==
    LET decision == decide(tr, None, None)
    IN IF Len(SelectSeq(tr, LAMBDA w : ~IsPunct(w))) > 3 THEN None
       ELSE IF decision.route # "DETERMINISTIC" THEN None
       ELSE decision.parser_result.matched_entity

\* lines 2159-2179: after an add, after clear_thinking
SegPostAdd(s, l, now) ==
    LET checkout_intent == AnyPhrase(norm_simple(l.tr), CheckoutPhrases)
    IN IF s.fulfillment_mode = None /\ checkout_intent
       THEN Speak([s EXCEPT !.pending_fulfillment = TRUE], l, Say("pickup_or_delivery"), "ret", now)
       ELSE IF s.fulfillment_mode = "pickup" /\ s.customer_name = << >>
            THEN Speak([s EXCEPT !.pending_name = TRUE], l, Say("what_name"), "ret", now)
       ELSE Speak(s, l, Say("anything_else"), "ret", now)

\* lines 2198-2215: explicit checkout with a non-empty cart, after clear_thinking
SegCheckout2(s, l, now) ==
    IF s.fulfillment_mode = None
    THEN Speak([s EXCEPT !.pending_fulfillment = TRUE], l, Say("pickup_or_delivery"), "ret", now)
    ELSE IF s.fulfillment_mode = "pickup" /\ s.customer_name = << >>
         THEN Speak([s EXCEPT !.pending_name = TRUE], l, Say("what_name"), "ret", now)
    ELSE Speak(s, l, Say("order_recap"), "ret", now)

\* lines 2235-2245: the reply of the LLM, sanitised
SegLlmDone(s, l, reply) ==
    LET low == LowerSeq(reply)
        claims_removal == \/ \E x \in {"remove", "cancel", "delete", "verwijder", "annuleer", "schrap"} :
                                CharIn(low, x)
                          \/ AnyPhrase(low, {<<"take", "off">>, <<"haal", "weg">>})
        r1 == IF reply # << >> /\ ~detect_explicit_remove_intent(l.tr, s.lang) /\ claims_removal
              THEN Say("add_or_change") ELSE reply
        r2 == IF r1 = << >> THEN Say("how_can_i_help") ELSE r1
    IN ClearSpeak(s, [l EXCEPT !.br = "llm"], r2)

\* lines 2181-2246: explicit checkout with a non-empty cart, else the LLM
OrderingFallback(s2, l, tr) ==
    IF s2.menu /\ s2.order # EmptyOrder
       /\ AnyPhrase(norm_simple(tr), CheckoutPhrases \cup
             {<<"no", "that", "will", "be", "all">>, <<"that", "will", "be", "all">>,
              <<"dat", "will", "be", "all">>})
    THEN R(s2, [l EXCEPT !.br = "checkout"], "checkout2", "clear_thinking")
    ELSE R(s2, [l EXCEPT !.br = "llm"], "llm_done", "llm")

\* lines 1939-1967: the quantity the turn states (0 for none), the held quantity of a bare
\* number said one turn earlier, and the quantity the turn adds with
RawQty(tr) == OrElse(extract_qty_first(tr, "en"), extract_qty_first(tr, "nl"))

HoldActive(s, now) == s.pending_qty_hold # 0 /\ now < s.pending_qty_deadline

ConsumeHold(s, now) ==
    IF HoldActive(s, now) THEN [s EXCEPT !.pending_qty_hold = 0, !.pending_qty_deadline = 0] ELSE s

EffectiveQty(s, raw_qty, now) == IF HoldActive(s, now) THEN s.pending_qty_hold ELSE OrElse(raw_qty, 1)

\* lines 1975-1981: a lone repeat of an item already in the cart, without add intent or
\* quantity, is not added again
Unsuppressed(s, tr, raw_qty, adds0) ==
    IF Len(adds0) = 1 /\ ~has_explicit_add_intent(tr) /\ raw_qty = 0 /\ Get(s.order, adds0[1][1], 0) > 0
    THEN << >> ELSE adds0

\* lines 2085-2093: "lamb" / "lam" in a naan request counts as "plain" when no naan is a lamb naan
AliasedRequest(chk, tr) ==
    IF /\ chk.mentions_nan /\ ~chk.has_variant
       /\ (CharIn(LowerSeq(tr), "lamb") \/ CharIn(LowerSeq(tr), "lam"))
       /\ ~has_lamb_naan
    THEN [chk EXCEPT !.has_variant = TRUE, !.variant = "plain"]
    ELSE chk

NaanIds == { x \in Items : is_nan_item(x) }

\* lines 2136-2152: the Order after the adds, with the per-item deltas remembered for a correction
Added(s, o_final, added_any, now) ==
    LET deltas == { <<iid, o_final[iid] - Get(s.order, iid, 0)>> :
                      iid \in { x \in DOMAIN o_final : o_final[x] > Get(s.order, x, 0) } }
    IN IF added_any /\ deltas # {}
       THEN [s EXCEPT !.order = o_final, !.last_added = deltas, !.last_added_ts = now]
       ELSE [s EXCEPT !.order = o_final]

\* lines 1984-2246: the branches of the ordering logic, in the order the code tries them
OrderingBranch(s, l, tr, now, add_qty, qty, det, chk, logicB, o_orch, adds1, adds2, added_any, o_final) ==
    IF det /\ IsSplit(tr)
    THEN R(Split([s EXCEPT !.order = o_orch], tr), [l EXCEPT !.br = "split"], "cart_check", "clear_thinking")
    ELSE IF det /\ IsNaanQtyUpdate([s EXCEPT !.order = o_orch], tr)
    THEN R(NaanQtyUpdate([s EXCEPT !.order = o_orch], tr), [l EXCEPT !.br = "naan_qty"],
           "cart_check", "clear_thinking")
    ELSE IF det /\ chk.mentions_nan /\ ~chk.has_variant
    THEN ClearSpeak([s EXCEPT !.order = AddAll(o_orch, adds1, NaanIds),
                              !.pending_choice = "nan_variant",
                              !.pending_qty = Max(1, OrElse(qty, 1))],
                    [l EXCEPT !.br = "logic_a"], Say("naan_prompt"))
    ELSE IF s.menu /\ ~(det /\ added_any) /\ (~det \/ adds2 = << >>) /\ s.pending_choice = None
            /\ norm_simple(tr) \in { <<"one">>, <<"two">>, <<"three">>, <<"1">>, <<"2">>, <<"3">>,
                                     <<"yes">>, <<"yeah">>, <<"ja">>, <<"sure">> }
    THEN ClearSpeak([s EXCEPT !.pending_qty_hold = add_qty, !.pending_qty_deadline = now + 6],
                    [l EXCEPT !.br = "qty_hold"], Say("which_item"))
    ELSE IF det /\ added_any /\ o_final # EmptyOrder /\ o_final # s.order
    THEN R(Added(s, o_final, added_any, now), [l EXCEPT !.br = IF logicB THEN "logic_b" ELSE "added"],
           "post_add", "clear_thinking")
    ELSE OrderingFallback(IF det THEN Added(s, o_final, added_any, now) ELSE s, l, tr)

\* lines 2095-2133: Logic B adds the named naan variant itself and keeps parse_add_item from
\* adding any naan; then every remaining parsed item is added
OrderingNaan(s, l, tr, now, add_qty, qty, det, orch_id, chk, o_orch, adds1, iidB) ==
    LET logicB == chk.mentions_nan /\ chk.has_variant /\ iidB # None
        oB == IF logicB THEN add(o_orch, iidB, Max(1, OrElse(qty, 1))) ELSE o_orch
        adds2 == IF logicB THEN SelectSeq(adds1, LAMBDA x : x[1] # iidB /\ ~is_nan_item(x[1])) ELSE adds1
        skip == (IF orch_id # None THEN {orch_id} ELSE {})
                \cup (IF logicB THEN {iidB} ELSE {})
                \cup (IF chk.mentions_nan /\ chk.has_variant THEN NaanIds ELSE {})
    IN OrderingBranch(s, l, tr, now, add_qty, qty, det, chk, logicB, o_orch, adds1, adds2,
                      orch_id # None \/ logicB \/ (\E i \in 1..Len(adds2) : adds2[i][1] \notin skip),
                      AddAll(oB, adds2, skip))

\* lines 1969-1981: the orchestrator's match, else the items parse_add_item finds
OrderingAdds(s, l, tr, now, raw_qty, qty, det, orch_id, chk) ==
    OrderingNaan(s, l, tr, now, OrElse(raw_qty, 1), qty, det, orch_id, chk,
                 IF orch_id # None THEN add(s.order, orch_id, Max(1, OrElse(qty, 1))) ELSE s.order,
                 Unsuppressed(s, tr, raw_qty,
                              IF det /\ orch_id = None THEN parse_add_item(tr, qty) ELSE << >>),
                 find_naan_item_for_variant(chk.variant))

\* lines 1922-2246: ordering logic, then the LLM fallback
SegOrdering(s0, l, tr, now) ==
    OrderingAdds(ConsumeHold(s0, now), l, tr, now, RawQty(tr), EffectiveQty(s0, RawQty(tr), now),
                 s0.menu /\ (~is_questionish(tr) \/ has_explicit_add_intent(tr)),
                 IF s0.menu /\ (~is_questionish(tr) \/ has_explicit_add_intent(tr))
                 THEN maybe_orchestrator_match_item(tr) ELSE None,
                 AliasedRequest(check_naan_request(tr), tr))

\* lines 1838-1855: checkout intent, after clear_thinking
SegCheckout(s, l, now) ==
    IF ~s.menu \/ s.order = EmptyOrder THEN Speak(s, l, Say("no_items_yet"), "ret", now)
    ELSE IF s.fulfillment_mode = None
         THEN Speak([s EXCEPT !.pending_fulfillment = TRUE], l, Say("pickup_or_delivery"), "ret", now)
    ELSE IF s.fulfillment_mode = "pickup" /\ s.customer_name = << >>
         THEN Speak([s EXCEPT !.pending_name = TRUE], l, Say("what_name"), "ret", now)
    ELSE Speak([s EXCEPT !.pending_confirm = TRUE], l, Say("confirm_order"), "ret", now)

\* lines 1906-1914: pickup/delivery repeated, after clear_thinking
SegPickupMention(s, l, now) ==
    IF s.fulfillment_mode = "pickup"
    THEN IF s.customer_name # << >> THEN Speak(s, l, Say("set_for_pickup"), "ret", now)
         ELSE Speak([s EXCEPT !.pending_name = TRUE], l, Say("what_name"), "ret", now)
    ELSE Speak(s, l, Say("set_for_delivery"), "ret", now)

\* lines 1761-1914: the deterministic guards between the slots and the ordering logic
SegGuards(s, l, now) ==
    LET tr == l.tr
        bare_no == s.menu /\ s.order # EmptyOrder
                   /\ norm_simple(tr) \in {<<"no">>, <<"nee">>, <<"nope">>, <<"nah">>}
        tr2 == IF bare_no
               THEN (IF s.lang # "nl" THEN <<"that", "will", "be", "all">> ELSE <<"dat", "is", "alles">>)
               ELSE tr
    IN IF is_total_amount_query(tr) /\ s.menu
       THEN R(s, [l EXCEPT !.br = "total"], "total", "clear_thinking")
       ELSE IF is_order_complete_intent(tr) /\ s.menu /\ s.fulfillment_mode # None /\ s.customer_name # << >>
       THEN R(s, [l EXCEPT !.br = "complete"], "complete", "clear_thinking")
       ELSE IF is_order_summary_query(tr) /\ s.menu
       THEN ClearSpeak(s, [l EXCEPT !.br = "summary"], Say("current_order"))
       ELSE IF is_checkout_intent(tr)
       THEN R(s, [l EXCEPT !.br = "checkout"], "checkout", "clear_thinking")
       ELSE IF is_close_call_intent(tr)
       THEN ClearSpeak([s EXCEPT !.order_complete = TRUE], [l EXCEPT !.br = "close_call"], Say("goodbye"))
       ELSE IF is_done_intent(tr2)
       THEN IF s.fulfillment_mode = None
            THEN ClearSpeak([s EXCEPT !.pending_fulfillment = TRUE],
                            [l EXCEPT !.tr = tr2, !.br = "done"], Say("pickup_or_delivery"))
            ELSE IF s.fulfillment_mode = "pickup" /\ s.customer_name = << >>
            THEN ClearSpeak([s EXCEPT !.pending_name = TRUE],
                            [l EXCEPT !.tr = tr2, !.br = "done"], Say("what_name"))
            ELSE ClearSpeak([s EXCEPT !.order_complete = TRUE],
                            [l EXCEPT !.tr = tr2, !.br = "done"], Say("order_goodbye"))
       ELSE IF s.fulfillment_mode # None /\ is_pickup_delivery_mention(tr2)
       THEN R(s, [l EXCEPT !.tr = tr2, !.br = "pickup_mention"], "pickup_mention", "clear_thinking")
       ELSE SegOrdering(s, [l EXCEPT !.tr = tr2], tr2, now)

\* lines 1740-1758: the confirmation latch, after clear_thinking
SegConfirm(s, l, now) ==
    IF is_yes_like(l.tr) \/ is_order_complete_intent(l.tr)
    THEN Speak([s EXCEPT !.pending_confirm = FALSE, !.order_finalized = TRUE],
               l, Say("order_confirmed"), "ret", now)
    ELSE IF is_refusal_like(l.tr)
         THEN Speak([s EXCEPT !.pending_confirm = FALSE], l, Say("what_change"), "ret", now)
    ELSE SegGuards([s EXCEPT !.pending_confirm = FALSE], l, now)

\* lines 1660-1758: slot handling
SegSlots(s, l, now) ==
    IF s.pending_choice = "nan_variant" THEN handle_pending_nan_variant(s, l, now)
    ELSE IF s.pending_fulfillment
         THEN IF is_obvious_out_of_scope(l.tr)
              THEN ClearSpeak(s, [l EXCEPT !.br = "fulfillment"], Say("pickup_or_delivery"))
              ELSE R(s, [l EXCEPT !.br = "fulfillment"], "fulfillment", "clear_thinking")
    ELSE IF s.pending_name THEN R(s, [l EXCEPT !.br = "name"], "name", "clear_thinking")
    ELSE IF s.order_finalized THEN ClearSpeak(s, [l EXCEPT !.br = "finalized"], Say("already_confirmed"))
    ELSE IF s.pending_confirm THEN R(s, [l EXCEPT !.br = "confirm"], "confirm", "clear_thinking")
    ELSE SegGuards(s, l, now)

\* lines 1500-1655: after send_user_text
SegMain(s, l, now) ==
    LET tr == l.tr
        ordering == is_ordering_intent_global(tr)
        lang_cmd == is_language_command(tr)
        s1 == IF ordering /\ ~(s.pending_fulfillment \/ s.pending_name)
              THEN [s EXCEPT !.pending_name = FALSE, !.pending_fulfillment = FALSE] ELSE s
        s2 == IF lang_cmd # None /\ lang_cmd # s1.lang THEN [s1 EXCEPT !.lang = lang_cmd, !.lang_locked = TRUE] ELSE s1
        target == dispatcher_route(tr)
    IN IF IsCorrection(s, tr, now)
       THEN Speak(Correction(s, tr, now), [l EXCEPT !.br = "correction"], Say("sorry_updated"), "ret", now)
       ELSE IF IsOfferAccept(s, tr, now)
       THEN Speak(OfferAccept(s, tr, now), [l EXCEPT !.br = "offer_accept"], Say("added_offer"), "ret", now)
       ELSE IF s.order_complete THEN ClearSpeak(s, [l EXCEPT !.br = "closed"], Say("thanks_goodbye"))
       ELSE IF is_dispatcher(s2)
            THEN IF target = None
                 THEN ClearSpeak(s2, [l EXCEPT !.br = "dispatch_ask"], Say("which_service"))
                 ELSE R(s2, [l EXCEPT !.br = "dispatch", !.arg = target], "dispatch", "clear_thinking")
       ELSE IF looks_like_stt_prompt_dump(tr)
            THEN ClearSpeak(s2, [l EXCEPT !.br = "prompt_dump"], Say("just_tell_me"))
       ELSE SegSlots(s2, l, now)

\* _load_tenant_context up to its await of get_snapshot (lines 1032-1052)
SegLoadTenant(s, l) ==
    R([s EXCEPT !.tenant_ref = l.arg], l, "tenant_loaded", "tenant")

\* lines 1058-1071 and 1623-1633: the snapshot arrived or failed; greet for the new tenant
SegTenantLoaded(s, l, snap, now) ==
    LET s1 == [s EXCEPT !.menu = (snap = "snapshot")]
        s2 == IF l.arg = "taj_mahal" THEN [s1 EXCEPT !.lang = "en", !.lang_locked = TRUE] ELSE s1
    IN Speak([s2 EXCEPT !.phase = "chat"], l, Say("tenant_greeting"), "ret", now)

\* the pcs at which the coroutine is suspended on a transport send
SendAwaits == {"send_thinking", "clear_thinking", "send_user_text", "send_agent_text"}

\* One step of a process_utterance coroutine: it is resumed at l.pc with the outcome wake
\* of the awaitable it was suspended on ("ok", "cancel" for CancelledError, "exc" for an
\* exception) and the awaited value inp, and runs to its next await.
RECURSIVE ProcStep(_, _, _, _, _)
ProcStep(s, l, wake, inp, now) ==
    IF l.pc = "start"
    THEN (IF wake = "cancel" THEN R(s, l, "done", "done") ELSE SegStart(s, l))
    ELSE IF l.pc \in {"cancel_handler", "exc_handler"} THEN Fin(s, l)
    ELSE IF l.pc = "speak_wait"
         THEN (IF wake = "exc" THEN R(s, l, "speak_fail", "clear_thinking")
               ELSE ProcStep(s, [l EXCEPT !.pc = l.ret], "ok", inp, now))
    ELSE IF wake = "cancel" THEN R(s, l, "cancel_handler", "clear_thinking")
    ELSE IF l.pc = "speak_fail" THEN ProcStep(s, [l EXCEPT !.pc = l.ret], "ok", inp, now)
    ELSE IF wake = "exc" THEN Raise(s, l)
    ELSE CASE l.pc = "stt" -> SegStt(s, l)
           [] l.pc = "after_stt" -> SegAfterStt(s, l, inp, now)
           [] l.pc = "cc_neg" -> SegCartNo(s, l, now)
           [] l.pc = "cc_retry" -> CartCheckRetry(s, l, s.cart_check_retries, now)
           [] l.pc = "main" -> SegMain(s, l, now)
           [] l.pc = "cs" -> Speak(s, l, l.txt, "ret", now)
           [] l.pc = "speak_tts" -> R(s, l, "speak_wait", "tts")
           [] l.pc = "cart_check" -> SegCartCheckPrompt(s, l, now)
           [] l.pc = "fulfillment" -> SegFulfillment(s, l, now)
           [] l.pc = "name" -> SegName(s, l, now)
           [] l.pc = "confirm" -> SegConfirm(s, l, now)
           [] l.pc = "total" -> Speak([s EXCEPT !.pending_confirm = TRUE], l, Say("total_unknown"), "ret", now)
           [] l.pc = "complete" -> Speak([s EXCEPT !.order_finalized = TRUE], l, Say("order_confirmed"), "ret", now)
           [] l.pc = "checkout" -> SegCheckout(s, l, now)
           [] l.pc = "pickup_mention" -> SegPickupMention(s, l, now)
           [] l.pc = "post_add" -> SegPostAdd(s, l, now)
           [] l.pc = "checkout2" -> SegCheckout2(s, l, now)
           [] l.pc = "llm_done" -> SegLlmDone(s, l, inp)
           [] l.pc = "dispatch" -> Speak(s, l, Say("connecting"), "load_tenant", now)
           [] l.pc = "load_tenant" -> SegLoadTenant(s, l)
           [] l.pc = "tenant_loaded" -> SegTenantLoaded(s, l, inp, now)
           [] OTHER -> Fin(s, l)

(***************************************************************************)
(* The asyncio event loop: tasks, the FIFO ready queue, cancellation       *)
(***************************************************************************)
VARIABLES
    ready,     \* the event loop's queue of callbacks ready to run, oldest first
    now,       \* time.time(), in seconds
    ws,        \* the websocket
    harness,   \* TRUE when process_utterance is driven directly, as the tests do
    st,        \* SessionState
    tasks,     \* the asyncio tasks of the session
    vad,       \* the VAD object of services/audio.py (None where the audio arrives segmented)
    mic,       \* the audio source of the segmenter: frames fed, wall clock, feed's last result
    call,      \* one call of parse_add_item: its arguments and its result
    reprompts  \* history: the consecutive turns that left a pending slot pending

vars == <<st, tasks, ready, now, ws, harness, vad, mic, call, reprompts>>

ProcIds == <<"p1", "p2", "p3">>
TtsIds == <<"t1", "t2", "t3">>
Procs == { ProcIds[i] : i \in 1..Len(ProcIds) }
Ttss == { TtsIds[i] : i \in 1..Len(TtsIds) }
TaskIds == {"main", "hb"} \cup Procs \cup Ttss

\* an asyncio task: where it stands (free, ready, io, wait, sleep, recv, done), what it is
\* resumed with, its coroutine's locals, what it awaits, and whether cancel() was called on it
FreeTask ==
    [status |-> "free", wake |-> "ok", inp |-> None, l |-> << >>, waitfor |-> None,
     cancelling |-> FALSE]
DoneTask == [FreeTask EXCEPT !.status = "done"]

\* Task.done()
Done(T, t) == T[t].status \in {"free", "done"}
Alive(T, t) == ~Done(T, t)

\* the world a step of a task works on
World == [st |-> st, tasks |-> tasks, ready |-> ready, ws |-> ws]

\* Task.cancel() on a task that does not await another task
CancelLeaf(W, t) ==
    IF Done(W.tasks, t) THEN W
    ELSE IF W.tasks[t].status = "ready"
         THEN [W EXCEPT !.tasks[t].wake = "cancel"]
         ELSE [W EXCEPT !.tasks[t].status = "ready", !.tasks[t].wake = "cancel",
                        !.ready = Append(@, t)]

\* Task.cancel(): a task that awaits another task passes the request on to it
CancelTask(W, t) ==
    IF t = None \/ Done(W.tasks, t) THEN W
    ELSE LET W1 == [W EXCEPT !.tasks[t].cancelling = TRUE]
         IN IF W.tasks[t].status = "wait" THEN CancelLeaf(W1, W.tasks[t].waitfor)
            ELSE CancelLeaf(W1, t)

\* the task t parks with the given status, locals and awaited thing
Park(W, t, status, wake, l, waitfor) ==
    [W EXCEPT !.tasks[t] = [@ EXCEPT !.status = status, !.wake = wake, !.inp = None, !.l = l,
                                     !.waitfor = waitfor]]

\* asyncio.create_task: the new task's first step is queued
Spawn(W, t, l0) ==
    [W EXCEPT !.tasks[t] = [FreeTask EXCEPT !.status = "ready", !.l = l0],
              !.ready = Append(@, t)]

\* the first unused task of a family
FreeId(T, ids) == FirstSuch(ids, LAMBDA t : T[t].status = "free")

\* a finished task is dropped once the session holds no reference to it
Release(W, t) ==
    IF t # None /\ W.tasks[t].status = "done" /\ t \notin {W.st.proc_task, W.st.tts_task}
    THEN [W EXCEPT !.tasks[t] = FreeTask] ELSE W

\* the set S as a sequence
RECURSIVE SeqOf(_)
SeqOf(S) == IF S = {} THEN << >> ELSE LET x == CHOOSE y \in S : TRUE IN <<x>> \o SeqOf(S \ {x})

\* a task ends with outcome "ok", "cancel" or "exc": whoever awaits it is woken with it
FinishTask(W, t, outcome) ==
    LET waiters == { w \in TaskIds : W.tasks[w].status = "wait" /\ W.tasks[w].waitfor = t }
        T1 == [w \in TaskIds |->
                 IF w = t THEN DoneTask
                 ELSE IF w \in waiters
                      THEN [W.tasks[w] EXCEPT !.status = "ready", !.wake = outcome, !.waitfor = None]
                      ELSE W.tasks[w]]
    IN Release([W EXCEPT !.tasks = T1, !.ready = @ \o SeqOf(waiters)], t)

\* the running task suspends on I/O of the given kind
Suspend(W, t, l, kind) == Park(W, t, "io", "ok", l, kind)

\* the running task awaits a transport send: the message is handed to the socket; the
\* coroutine goes on at once (yield = FALSE) or is suspended until the socket drains
Send(W, t, l, kind, yield) ==
    LET sent == [W.ws EXCEPT !.last = kind,
                             !.text = IF kind = "send_agent_text" THEN l.txt ELSE @,
                             !.thinking = IF kind = "send_thinking" THEN TRUE
                                          ELSE IF kind = "clear_thinking" THEN FALSE ELSE @]
    IN IF W.ws.closed
       THEN [Park(W, t, "ready", "exc", l, None) EXCEPT !.ready = <<t>> \o @]
       ELSE IF yield
            THEN [Suspend(W, t, l, kind) EXCEPT !.ws = sent]
            ELSE [Park(W, t, "ready", "ok", l, None) EXCEPT !.ready = <<t>> \o @, !.ws = sent]

\* a stream_tts_mp3 that returns without awaiting the synthesis task it created
StreamTts_NoAwait(W, t, l) ==
    LET old == W.st.tts_task
        W1 == Release([CancelTask(W, old) EXCEPT !.st.tts_task = None], old)
        new == FreeId(W1.tasks, TtsIds)
        W2 == Spawn(W1, new, [pc |-> "start"])
    IN [Park([W2 EXCEPT !.st.tts_task = new], t, "ready", "ok", l, None) EXCEPT !.ready = <<t>> \o @]

\* stream_tts_mp3 (lines 1110-1140): cancel the previous task, create the new one, await it
StreamTts(W, t, l) ==
    LET old == W.st.tts_task
        W1 == Release([CancelTask(W, old) EXCEPT !.st.tts_task = None], old)
        new == FreeId(W1.tasks, TtsIds)
        W2 == Spawn(W1, new, [pc |-> "start"])
    IN Park([W2 EXCEPT !.st.tts_task = new], t, "wait", "ok", l, new)

\* _run of stream_tts_mp3 (lines 1113-1136), cut at its awaits
TtsFinally(s, l, outcome, tm) ==
    [s |-> [s EXCEPT !.is_speaking = FALSE, !.last_agent_speech_end_ts = tm, !.last_activity_ts = tm],
     l |-> [l EXCEPT !.pc = "done"], aw |-> "done", outcome |-> outcome]

TtsStep(s, l, wake, tm) ==
    LET Go(s1, pc, aw) == [s |-> s1, l |-> [l EXCEPT !.pc = pc], aw |-> aw, outcome |-> "ok"]
    IN CASE l.pc = "start" ->
              IF wake = "cancel" THEN [s |-> s, l |-> [l EXCEPT !.pc = "done"], aw |-> "done",
                                       outcome |-> "cancel"]
              ELSE Go([s EXCEPT !.is_speaking = TRUE], "bytes", "tts_bytes")
         [] l.pc = "cancel_end" ->
              TtsFinally(s, l, IF wake = "cancel" THEN "cancel" ELSE "ok", tm)
         [] wake = "cancel" -> Go(s, "cancel_end", "tts_end")
         [] wake = "exc" -> TtsFinally(s, l, "exc", tm)
         [] l.pc = "bytes" -> Go(s, "chunk", "send_audio")
         [] l.pc = "chunk" -> Go(s, "end", "tts_end")
         [] OTHER -> TtsFinally(s, l, "ok", tm)

\* the awaits that are transport sends, and those that wait for a remote service
SendKinds == SendAwaits \cup {"send_audio", "tts_end", "clear_audio_queue", "send_inactivity"}
IoKinds == {"stt", "llm", "tenant", "tts_bytes"}

\* the running task t reaches the awaitable aw with locals l
Await(W, t, l, aw, outcome, yield) ==
    CASE aw \in SendKinds -> Send(W, t, l, aw, yield)
      [] aw \in IoKinds -> Suspend(W, t, l, aw)
      [] aw = "tts" -> StreamTts(W, t, l)
      [] aw = "done" -> FinishTask(W, t, outcome)
      [] OTHER -> Park(W, t, aw, "ok", l, None)

Commit(W) ==
    /\ st' = W.st
    /\ tasks' = W.tasks
    /\ ready' = W.ready
    /\ ws' = W.ws

\* the popped task t has run to its next await with result r: session state, locals, awaitable
Resume(W, t, r, outcome, yield) ==
    Await([W EXCEPT !.ready = Tail(@), !.st = r.s], t, r.l, r.aw, outcome, yield)

ResumeTts(W, t, r, yield) == Resume(W, t, r, r.outcome, yield)

\* the event loop pops the process_utterance task t and runs it to its next await
StepProc(W, t, yield, tm) ==
    Resume(W, t, ProcStep(W.st, W.tasks[t].l, W.tasks[t].wake, W.tasks[t].inp, tm), "ok", yield)

\* the event loop pops the synthesis task t and runs it to its next await
StepTts(W, t, yield, tm) ==
    ResumeTts(W, t, TtsStep(W.st, W.tasks[t].l, W.tasks[t].wake, tm), yield)

\* an awaited service call or a suspended send of task t completes with outcome o
IoComplete(W, t, o) ==
    [W EXCEPT !.tasks[t].status = "ready", !.tasks[t].wake = o[1], !.tasks[t].inp = o[2],
              !.tasks[t].waitfor = None,
              !.ready = Append(@, t)]

RunProc(yield) ==
    /\ ~harness
    /\ ready # << >>
    /\ Head(ready) \in Procs
    /\ Commit(StepProc(World, Head(ready), yield, now))
    /\ UNCHANGED <<now, harness, vad, mic, call, reprompts>>

RunTts(yield) ==
    /\ ~harness
    /\ ready # << >>
    /\ Head(ready) \in Ttss
    /\ Commit(StepTts(World, Head(ready), yield, now))
    /\ UNCHANGED <<now, harness, vad, mic, call, reprompts>>

(***************************************************************************)
(* The environment: the remote services, the clock, the test harness       *)
(***************************************************************************)
\* bounds of the exploration
MaxQty == 2
MaxNow == 3

\* the number of portions in an order
RECURSIVE Total(_)
Total(o) ==
    IF DOMAIN o = {} THEN 0
    ELSE LET k == CHOOSE x \in DOMAIN o : TRUE IN o[k] + Total(Pop(o, k))

\* what the transcription service can return to a turn driven by the tests
HarnessTranscripts ==
    { << >>,
      <<"two", "butter", "chicken">>,
      <<"one", "lamb", "karahi", "and", "one", "naan">>,
      <<"two", "naan">>,
      <<"garlic", "naan">>,
      <<"garlic">>,
      <<"no", ",", "one", "lamb", "karahi">>,
      <<"yes">>,
      <<"no">>,
      <<"that", "is", "all">>,
      <<"pickup">>,
      <<"Marcel">>,
      <<"how", "much">>,
      <<"two", "plain", "naan", "and", "one", "garlic", "naan">>,
      <<"make", "it", "two", "naan">> }

\* what the scripted caller answers when asked for a name
NameTranscripts == { << >>, <<"Marcel">>, <<"no">> }

\* what it can return to a turn dispatched by the audio loop
ServerTranscripts ==
    { <<"two", "naan">>, <<"food">> }

Transcripts == IF harness THEN HarnessTranscripts ELSE ServerTranscripts

\* what the chat model can reply
Replies ==
    { <<"sure">>,
      <<"would", "you", "like", "to", "add", "butter", "chicken", "?">> }

\* the chat request raised
LLM_FAIL == <<"[llm error]">>

\* the outcomes of an awaited service call of the given kind: <<wake, value>>
IoOutcomes(kind) ==
    CASE kind = "stt" -> { <<"ok", x>> : x \in Transcripts \cup {STT_FAIL} }
      [] kind = "llm" -> { <<"ok", x>> : x \in Replies } \cup { <<"exc", << >>>> }
      [] kind = "tenant" -> { <<"ok", "snapshot">> } \cup (IF harness THEN {} ELSE { <<"ok", "failed">> })
      [] kind = "tts_bytes" -> { <<"ok", None>> } \cup (IF harness THEN {} ELSE { <<"exc", None>> })
      [] OTHER -> { <<(IF ws.closed THEN "exc" ELSE "ok"), None>> }

IoDone(t) ==
    /\ ~harness
    /\ tasks[t].status = "io"
    /\ \E o \in IoOutcomes(tasks[t].waitfor) : Commit(IoComplete(World, t, o))
    /\ UNCHANGED <<now, harness, vad, mic, call, reprompts>>

\* the event loop of a test: the fake websocket never suspends a send, the fake services
\* answer at once; it runs until nothing is left to run or the chat model is awaited
RECURSIVE Drain(_, _, _)
Drain(W, tr, tm) ==
    LET waiting == { t \in TaskIds : W.tasks[t].status = "io" /\ W.tasks[t].waitfor # "llm" }
        t == CHOOSE x \in waiting : TRUE
        kind == W.tasks[t].waitfor
        o == CASE kind = "stt" -> <<"ok", tr>>
               [] kind = "tenant" -> <<"ok", "snapshot">>
               [] OTHER -> <<"ok", None>>
    IN IF W.ready # << >>
       THEN LET h == Head(W.ready)
            IN Drain(IF h \in Procs THEN StepProc(W, h, FALSE, tm) ELSE StepTts(W, h, FALSE, tm), tr, tm)
       ELSE IF waiting # {} THEN Drain(IoComplete(W, t, o), tr, tm)
       ELSE W

\* the tests await process_utterance directly, one turn after the other
HarnessTurn(tr) ==
    /\ harness
    /\ \A t \in TaskIds : Done(tasks, t)
    /\ Commit(Drain(Spawn(World, ProcIds[1], ProcLocals0), tr, now))
    /\ Total(st'.order) <= MaxQty
    /\ UNCHANGED <<now, harness, vad, mic, call, reprompts>>

\* the fake chat model answers the turn that awaits it
HarnessReply(reply) ==
    /\ harness
    /\ \E t \in Procs :
         /\ tasks[t].status = "io"
         /\ Commit(Drain(IoComplete(World, t, IF reply = LLM_FAIL THEN <<"exc", << >>>> ELSE <<"ok", reply>>),
                         << >>, now))
    /\ Total(st'.order) <= MaxQty
    /\ UNCHANGED <<now, harness, vad, mic, call, reprompts>>

\* the steps the clock makes between two events
TickSteps == {1}

\* asyncio.sleep: the sleepers that are due are woken, in the order of the task table
Wake(T, tm) ==
    [t \in TaskIds |-> IF T[t].status = "sleep" /\ T[t].l.due <= tm
                       THEN [T[t] EXCEPT !.status = "ready"] ELSE T[t]]

\* time passes while the event loop is idle
Tick(d) ==
    /\ ~harness
    /\ ready = << >>
    /\ now + d <= MaxNow
    /\ \A t \in TaskIds : tasks[t].status = "sleep" => now + d <= tasks[t].l.due
    /\ now' = now + d
    /\ tasks' = Wake(tasks, now + d)
    /\ ready' = SeqOf({ t \in TaskIds : tasks[t].status = "sleep" /\ tasks[t].l.due <= now + d })
    /\ UNCHANGED <<st, ws, harness, vad, mic, call, reprompts>>

\* the websocket: closed or not, the kind of the last message handed to it, the last agent
\* text, and whether the last of "thinking" / "clear_thinking" handed to it was "thinking"
WsOpen == [closed |-> FALSE, last |-> None, text |-> << >>, thinking |-> FALSE]

\* a session as the tests build it: SessionState, a controller, a fake websocket
Init ==
    /\ harness = TRUE
    /\ st = InitSession("taj_mahal")
    /\ tasks = [t \in TaskIds |-> FreeTask]
    /\ ready = << >>
    /\ now = 0
    /\ ws = WsOpen
    /\ vad = None
    /\ mic = None
    /\ call = None
    /\ reprompts = 0

Next ==
    \/ \E tr \in (IF st.pending_name THEN NameTranscripts ELSE HarnessTranscripts) : HarnessTurn(tr)
    \/ \E reply \in Replies \cup {LLM_FAIL} : HarnessReply(reply)

Spec == Init /\ [][Next]_vars

(***************************************************************************)
(* The server: the audio loop of _handle_ws and the heartbeat supervisor   *)
(***************************************************************************)
\* settings.py reads its timing parameters from the environment; the deployment explored
\* here keeps their order but scales them to whole seconds (the defaults are 1.0, 10.0, 28,
\* 25, 2.8, 3.2 and 1.5 seconds); utterance sizes are counted in units of FRAGMENT_MAX_BYTES
HEARTBEAT_CHECK_EVERY_SEC == 1
HEARTBEAT_GRACE_AFTER_GREETING_SEC == 2
HEARTBEAT_IDLE_SEC_DEFAULT == 3
HEARTBEAT_IDLE_SEC_MIN == 2
PAUSE_MERGE_SEC == 1
PAUSE_MERGE_SEC_FRAGMENT == 2
STARTUP_IGNORE_SEC == 1
FRAGMENT_MAX_BYTES == 1

\* the longest buffered turn the caller produces, in units of FRAGMENT_MAX_BYTES
MaxPending == 3

\* PCM bytes are kept as the sequence of the utterances they were emitted as, each utterance
\* as its size; len() of the bytes is the sum of the sizes
RECURSIVE PcmLen(_)
PcmLen(pcm) == IF pcm = << >> THEN 0 ELSE Head(pcm) + PcmLen(Tail(pcm))

\* what the client sends: control messages and audio frames; a frame is loud (its RMS
\* reaches BARGE_IN_RMS) or not, and completes an utterance of utter units in the VAD or none
NoMsg == [type |-> "none", hot |-> FALSE, utter |-> 0]
Msgs ==
    { [NoMsg EXCEPT !.type = x] : x \in {"end_call", "barge_in", "disconnect"} }
        \cup { [type |-> "frame", hot |-> h, utter |-> u] : h \in BOOLEAN, u \in 0..MaxPending }

\* the locals of heartbeat_loop and of _handle_ws when the greeting is about to be sent
HbLocals0 == [pc |-> "start", started_ts |-> 0, due |-> 0]
MainLocals0 ==
    [pc |-> "greet_send", started |-> 0, pending |-> << >>, deadline |-> 0, msg |-> NoMsg,
     txt |-> Say("greeting")]

\* Task.done() of a task the session state refers to
InFlight(W, t) == t # None /\ Alive(W.tasks, t)

\* lines 291-299 of heartbeat_loop: the idle time and its threshold
Idle(s, tm) ==
    Max(0, tm - Max(Max(s.last_activity_ts, s.last_user_utter_end_ts), s.last_agent_speech_end_ts))
IdleSec == Max(HEARTBEAT_IDLE_SEC_MIN, HEARTBEAT_IDLE_SEC_DEFAULT)

\* lines 285-333 of heartbeat_loop: the checks that let the supervisor end the call
HbMayClose(W, l, tm) ==
    /\ ~((tm - l.started_ts) < HEARTBEAT_GRACE_AFTER_GREETING_SEC)
    /\ ~InFlight(W, W.st.proc_task)
    /\ ~InFlight(W, W.st.tts_task)
    /\ Idle(W.st, tm) >= IdleSec

\* heartbeat_loop, cut at its awaits: sleep, the inactivity notice, ws.close()
heartbeat_loop(W, yield, tm) ==
    LET t == "hb"
        l == W.tasks[t].l
        W0 == [W EXCEPT !.ready = Tail(@)]
        Sleep(l1) == Park(W0, t, "sleep", "ok", [l1 EXCEPT !.due = tm + HEARTBEAT_CHECK_EVERY_SEC], None)
    IN CASE W.tasks[t].wake = "cancel" -> FinishTask(W0, t, "cancel")
         [] l.pc = "start" -> Sleep([l EXCEPT !.pc = "sleep", !.started_ts = tm])
         [] l.pc = "sleep" ->
              IF HbMayClose(W, l, tm)
              THEN Send(W0, t, [l EXCEPT !.pc = "close"], "send_inactivity", yield)
              ELSE Sleep(l)
         [] OTHER -> FinishTask([W0 EXCEPT !.ws.closed = TRUE], t, "ok")

\* a barge-in that cancels the turn in flight instead of its synthesis
BargeIn_CancelsTurn(W, tm) ==
    LET W1 == [W EXCEPT !.st.last_activity_ts = tm, !.st.last_agent_speech_end_ts = tm]
    IN IF InFlight(W, W.st.proc_task) THEN CancelLeaf(W1, W.st.proc_task) ELSE W1

\* lines 493-499 and 519-526 of _handle_ws: a barge-in stops the synthesis
BargeIn(W, tm) ==
    CancelTask([W EXCEPT !.st.last_activity_ts = tm, !.st.last_agent_speech_end_ts = tm],
               W.st.tts_task)

\* lines 530-552: the buffered turn is dispatched; a turn still in flight is cancelled
Flush(W, tm) ==
    LET old == W.st.proc_task
        W1 == CancelTask([W EXCEPT !.st.last_activity_ts = tm, !.st.last_user_utter_end_ts = tm], old)
        new == FreeId(W1.tasks, ProcIds)
    IN Release([Spawn(W1, new, ProcLocals0) EXCEPT !.st.proc_task = new], old)

\* an audio loop that gives every held buffer the normal grace window
Feed_NormalGraceOnly(W, l, m, tm) ==
    LET due == l.pending # << >> /\ tm >= l.deadline
        W1 == IF due THEN Flush(W, tm) ELSE W
        l1 == IF due THEN [l EXCEPT !.pending = << >>, !.deadline = 0] ELSE l
    IN IF m.utter = 0 THEN Park(W1, "main", "recv", "ok", l1, None)
       ELSE Park([W1 EXCEPT !.st.last_activity_ts = tm, !.st.last_user_utter_end_ts = tm],
                 "main", "recv", "ok",
                 [l1 EXCEPT !.pending = @ \o <<m.utter>>, !.deadline = tm + PAUSE_MERGE_SEC], None)

\* lines 529-582: flush the buffered turn if its pause-merge window elapsed, then feed the VAD
Feed(W, l, m, tm) ==
    LET due == l.pending # << >> /\ tm >= l.deadline
        W1 == IF due THEN Flush(W, tm) ELSE W
        l1 == IF due THEN [l EXCEPT !.pending = << >>, !.deadline = 0] ELSE l
        held == l1.pending \o <<m.utter>>
        grace == IF PcmLen(held) <= FRAGMENT_MAX_BYTES THEN PAUSE_MERGE_SEC_FRAGMENT ELSE PAUSE_MERGE_SEC
    IN IF m.utter = 0 THEN Park(W1, "main", "recv", "ok", l1, None)
       ELSE Park([W1 EXCEPT !.st.last_activity_ts = tm, !.st.last_user_utter_end_ts = tm],
                 "main", "recv", "ok", [l1 EXCEPT !.pending = held, !.deadline = tm + grace], None)

\* lines 586-605: the session is torn down
Teardown(W) ==
    LET W1 == CancelTask(W, "hb")
        W2 == CancelTask(W1, W1.st.proc_task)
        W3 == CancelTask(W2, W2.st.tts_task)
    IN FinishTask([W3 EXCEPT !.ws.closed = TRUE], "main", "ok")

\* _handle_ws from the greeting on (lines 426-605), cut at its awaits
handle_ws(W, yield, tm) ==
    LET t == "main"
        l == W.tasks[t].l
        wake == W.tasks[t].wake
        m == W.tasks[t].inp
        W0 == [W EXCEPT !.ready = Tail(@)]
        Go(pc) == [l EXCEPT !.pc = pc]
    IN CASE l.pc = "greet_send" -> Send(W0, t, Go("greet_tts"), "send_agent_text", yield)
         [] l.pc = "greet_tts" ->
              IF wake = "exc" THEN FinishTask(W0, t, "exc") ELSE StreamTts(W0, t, Go("greeted"))
         [] l.pc = "greeted" ->
              IF wake = "exc" THEN FinishTask(W0, t, "exc")
              ELSE Park([W0 EXCEPT !.st.last_agent_speech_end_ts = tm, !.st.last_activity_ts = tm],
                        t, "recv", "ok", [l EXCEPT !.pc = "loop", !.started = tm], None)
         [] wake = "exc" -> Teardown(W0)
         [] l.pc = "barged" -> Park(W0, t, "recv", "ok", Go("loop"), None)
         [] l.pc = "feed" -> Feed(W0, [l EXCEPT !.pc = "loop", !.msg = NoMsg], l.msg, tm)
         [] m.type \in {"end_call", "disconnect"} -> Teardown(W0)
         [] m.type = "barge_in" -> Send(BargeIn(W0, tm), t, Go("barged"), "clear_audio_queue", yield)
         [] (tm - l.started) < STARTUP_IGNORE_SEC -> Park(W0, t, "recv", "ok", l, None)
         [] InFlight(W, W.st.tts_task) /\ m.hot ->
              Send(BargeIn(W0, tm), t, [l EXCEPT !.pc = "feed", !.msg = m], "clear_audio_queue", yield)
         [] OTHER -> Feed(W0, l, m, tm)

RunMain(yield) ==
    /\ ~harness
    /\ ready # << >>
    /\ Head(ready) = "main"
    /\ Commit(handle_ws(World, yield, now))
    /\ UNCHANGED <<now, harness, vad, mic, call, reprompts>>

RunHb(yield) ==
    /\ ~harness
    /\ ready # << >>
    /\ Head(ready) = "hb"
    /\ Commit(heartbeat_loop(World, yield, now))
    /\ UNCHANGED <<now, harness, vad, mic, call, reprompts>>

\* ws.receive() returns: the client's next message, or the disconnect once the socket is closed
ClientMsg(m) ==
    /\ ~harness
    /\ tasks["main"].status = "recv"
    /\ ws.closed => m.type = "disconnect"
    /\ m.type = "frame" => PcmLen(tasks["main"].l.pending) + m.utter <= MaxPending
    /\ m.type = "frame" => FreeId(tasks, ProcIds) # None
    /\ Commit(IoComplete(World, "main", <<"ok", m>>))
    /\ UNCHANGED <<now, harness, vad, mic, call, reprompts>>

\* a session as uvicorn runs it: _handle_ws has created the heartbeat task and is about to
\* send the greeting
InitConc ==
    /\ harness = FALSE
    /\ \E tenant \in Tenants : st = InitSession(tenant)
    /\ tasks = [t \in TaskIds |->
                  CASE t = "main" -> [FreeTask EXCEPT !.status = "ready", !.l = MainLocals0]
                    [] t = "hb" -> [FreeTask EXCEPT !.status = "ready", !.l = HbLocals0]
                    [] OTHER -> FreeTask]
    /\ ready = <<"main", "hb">>
    /\ now = 0
    /\ ws = WsOpen
    /\ vad = None
    /\ mic = None
    /\ call = None
    /\ reprompts = 0

NextConc ==
    \/ \E yield \in BOOLEAN : RunMain(yield)
    \/ \E yield \in BOOLEAN : RunHb(yield)
    \/ \E yield \in BOOLEAN : RunProc(yield)
    \/ \E yield \in BOOLEAN : RunTts(yield)
    \/ \E t \in TaskIds : IoDone(t)
    \/ \E m \in Msgs : ClientMsg(m)
    \/ \E d \in TickSteps : Tick(d)

SpecConc == InitConc /\ [][NextConc]_vars

(***************************************************************************)
(* Properties                                                              *)
(***************************************************************************)
\* C3: every item id present in the session Order has a quantity > 0, whatever turns and
\* Order operations led to it; on such an order set_qty(id, q) with q <= 0 removes the
\* key and add(id, q) with q <= 0 leaves the order unchanged.
C3_OrderQuantitiesPositive ==
    /\ \A k \in DOMAIN st.order : st.order[k] \in Nat /\ st.order[k] > 0
    /\ \A k \in Items : \A q \in {-1, 0} :
         /\ k \notin DOMAIN set_qty(st.order, k, q)
         /\ \A j \in DOMAIN st.order \ {k} :
              j \in DOMAIN set_qty(st.order, k, q) /\ set_qty(st.order, k, q)[j] = st.order[j]
         /\ add(st.order, k, q) = st.order

\* a correction has rolled the whole last add back and put another item in its place
C3_Witness ==
    /\ ws.text = Say("sorry_updated")
    /\ "butter_chicken" \notin DOMAIN st.order
    /\ "lamb_karahi" \in DOMAIN st.order

\* the words of C4: the generic item, and the keywords that name one of its variants
MentionsNaan(tr) == HasWord(norm_simple(tr), NAAN_TOKENS)
VariantItem(w) ==
    IF w \in VARIANT_TOKS("garlic") THEN "naan_garlic"
    ELSE IF w \in PLAIN_LIKE THEN "naan_plain"
    ELSE None
NamedVariants(tr) == { VariantItem(norm_simple(tr)[i]) : i \in 1..Len(norm_simple(tr)) } \ {None}
NaanItems == { x \in Items : is_nan_item(x) }

\* the turn with transcript tr is handled by the deterministic add path
AddPath(tr) ==
    /\ ~st.pending_cart_check
    /\ SegMain(st, [ProcLocals0 EXCEPT !.tr = tr], now).l.br \in {"logic_a", "logic_b", "added"}

\* C4: in the deterministic add path a turn that mentions naan without a variant keyword
\* latches the variant slot and adds no naan variant to the order in that turn; a turn that
\* names a variant keyword adds that variant and neither latches the slot nor prompts.
C4_GenericNaanLatches ==
    [][\A tr \in HarnessTranscripts :
         (HarnessTurn(tr) /\ AddPath(tr) /\ MentionsNaan(tr)) =>
             IF NamedVariants(tr) = {}
             THEN /\ st'.pending_choice = "nan_variant"
                  /\ \A k \in NaanItems : Get(st'.order, k, 0) = Get(st.order, k, 0)
             ELSE /\ st'.pending_choice = None
                  /\ ws'.text # Say("naan_prompt")
                  /\ \A k \in NamedVariants(tr) : Get(st'.order, k, 0) > Get(st.order, k, 0)
                  /\ \A k \in NaanItems \ NamedVariants(tr) : Get(st'.order, k, 0) = Get(st.order, k, 0)]_vars

\* the set of pending slots that are set
PendingSlots ==
    { x \in {"pending_choice", "pending_fulfillment", "pending_name", "pending_cart_check",
             "pending_confirm"} :
        CASE x = "pending_choice" -> st.pending_choice # None
          [] x = "pending_fulfillment" -> st.pending_fulfillment
          [] x = "pending_name" -> st.pending_name
          [] x = "pending_cart_check" -> st.pending_cart_check
          [] OTHER -> st.pending_confirm }

\* C5: from a fresh session and after any sequence of turns, at most one of pending_choice,
\* pending_fulfillment, pending_name, pending_cart_check and pending_confirm is set.
C5_AtMostOnePendingSlot == Cardinality(PendingSlots) <= 1

\* the fulfillment slot was answered with pickup and handed over to the name slot
C5_Witness ==
    /\ st.pending_name
    /\ st.fulfillment_mode = "pickup"
    /\ ws.text = Say("what_name")

(***************************************************************************)
(* Properties of the running server                                        *)
(***************************************************************************)
\* the event loop runs a step of the task at the head of its queue
Steps(t) == ready # << >> /\ Head(ready) = t /\ tasks'[t] # tasks[t]

\* C1: when the newest dispatched turn starts while an older turn is still in flight, it is
\* not discarded: at the moment its task first runs, no other turn holds the is_processing
\* guard that would make it return without being processed.
C1_NewestTurnProcessed ==
    \A t \in Procs :
        (/\ ready # << >>
         /\ Head(ready) = t
         /\ st.proc_task = t
         /\ tasks[t].l.pc = "start"
         /\ tasks[t].wake = "ok") => ~st.is_processing

\* the Order, the pending slots and the tenant/language context of a session
TurnState(s) ==
    [order |-> s.order, pending_choice |-> s.pending_choice, pending_qty |-> s.pending_qty,
     pending_fulfillment |-> s.pending_fulfillment, pending_name |-> s.pending_name,
     pending_cart_check |-> s.pending_cart_check, pending_confirm |-> s.pending_confirm,
     tenant_ref |-> s.tenant_ref, menu |-> s.menu, lang |-> s.lang, phase |-> s.phase]

\* C2: a cancelled turn is atomic; in particular, once cancel() has been called on a
\* turn-processing task, no later step of that task changes the Order, the pending slots
\* or the tenant/language context.
C2_NoMutationAfterCancel ==
    [][\A t \in Procs : (Steps(t) /\ tasks[t].cancelling) => TurnState(st') = TurnState(st)]_vars

\* C6: at most one speech-synthesis task is alive in a session, whatever barge-ins,
\* superseding turns and new replies interleave.
C6_OneSynthesisTask == Cardinality({ t \in Ttss : Alive(tasks, t) }) <= 1

\* a new turn was dispatched while the cancelled synthesis of the previous one unwinds
C6_Witness ==
    \E t \in Ttss : \E p \in Procs :
        /\ tasks[t].cancelling
        /\ tasks[t].l.pc = "cancel_end"
        /\ Alive(tasks, t)
        /\ tasks[p].cancelling
        /\ Alive(tasks, p)
        /\ st.proc_task \notin {None, p}

\* C7: at most one process_utterance invocation is past the is_processing guard.
C7_OneTurnBody ==
    Cardinality({ t \in Procs : Alive(tasks, t) /\ tasks[t].l.pc # "start" }) <= 1

\* a turn was dispatched while the previous one, cancelled, is still past the guard
C7_Witness ==
    \E a, b \in Procs :
        /\ a # b
        /\ Alive(tasks, a) /\ tasks[a].l.pc # "start" /\ tasks[a].cancelling
        /\ st.proc_task = b /\ tasks[b].status = "ready" /\ tasks[b].l.pc = "start"

\* the audio loop is about to handle a barge-in signal on an open transport
BargeInSignal ==
    /\ tasks["main"].status = "ready"
    /\ tasks["main"].l.pc = "loop"
    /\ tasks["main"].wake = "ok"
    /\ ~ws.closed
    /\ \/ tasks["main"].inp.type = "barge_in"
       \/ /\ tasks["main"].inp.type = "frame"
          /\ tasks["main"].inp.hot
          /\ InFlight(World, st.tts_task)

\* C8: on a barge-in signal the synthesis task in flight is cancelled, a clear-audio-queue
\* instruction is handed to the transport, and the turn-processing task is left alone.
C8_BargeInCancelsSynthesisOnly ==
    [][(BargeInSignal /\ Steps("main")) =>
          /\ InFlight(World, st.tts_task) =>
                tasks'[st.tts_task].cancelling /\ tasks'[st.tts_task].wake = "cancel"
          /\ ws'.last = "clear_audio_queue"
          /\ st.proc_task # None => tasks'[st.proc_task] = tasks[st.proc_task]]_vars

\* a barge-in has cancelled the synthesis of a turn that is still being processed
C8_Witness ==
    /\ ws.last = "clear_audio_queue"
    /\ Alive(tasks, "main")
    /\ tasks["main"].l.pc \in {"barged", "feed"}
    /\ InFlight(World, st.tts_task) /\ tasks[st.tts_task].cancelling
    /\ InFlight(World, st.proc_task) /\ ~tasks[st.proc_task].cancelling
    /\ tasks[st.proc_task].status = "wait"

\* the supervisor closes the session in this step
HbCloses == ~ws.closed /\ ws'.closed /\ Steps("hb")

\* C9: the supervisor never terminates a session that has not first received the idle-check
\* prompt: when it closes, agent speech has ended after the caller had been idle for the
\* threshold, and the close comes later than that speech.
C9_IdlePromptBeforeClose ==
    [][HbCloses =>
          /\ st.last_agent_speech_end_ts >= st.last_user_utter_end_ts + IdleSec
          /\ now > st.last_agent_speech_end_ts]_vars

\* C10: at the moment the supervisor closes the session, the grace period has elapsed, no
\* turn-processing and no synthesis task is in flight, and the idle time has reached the
\* threshold.
C10_CloseOnlyWhenIdle ==
    [][HbCloses => HbMayClose(World, tasks["hb"].l, now)]_vars

(***************************************************************************)
(* The voice activity segmenter: class VAD of services/audio.py            *)
(***************************************************************************)
\* settings.py, in milliseconds. The defaults are 20 ms frames, 3 frames to confirm speech,
\* 650 ms of silence to end it, 900 ms of minimum utterance and 300 ms of pre-roll; the model
\* keeps their order (confirm < pre-roll, silence end < minimum utterance) on 10 ms frames.
AUDIO_FRAME_MS == 10
ENERGY_FLOOR == 1
SPEECH_CONFIRM_FRAMES == 2
MIN_UTTERANCE_MS == 40
SILENCE_END_MS == 20
VAD_PREROLL_MS == 30

\* the number of frames the model feeds, and of clock steps it lets pass
MaxFrames == 7
MaxTicks == 6

\* rms_pcm16 of a frame: below the floor, or at the floor
Energies == {0, ENERGY_FLOOR}

\* VAD.__init__: the size of the pre-roll ring
PrerollFrames == Max(1, VAD_PREROLL_MS \div Max(1, AUDIO_FRAME_MS))

\* VAD.__init__ and VAD.reset: the state of an idle segmenter
NewVAD ==
    [in_speech |-> FALSE, speech_frames |-> 0, silence_frames |-> 0, buf |-> << >>,
     started_at |-> 0, preroll |-> << >>]

\* deque(maxlen).append: the oldest frame leaves a full ring
RingAppend(ring, frame) ==
    IF Len(ring) < PrerollFrames THEN Append(ring, frame) ELSE Append(Tail(ring), frame)

\* the start of speech is confirmed without the pre-roll: the buffer starts at the current frame
SpeechStart_NoPreroll(v, ring, frame, tm) ==
    [v EXCEPT !.in_speech = TRUE, !.speech_frames = @ + 1, !.started_at = tm,
              !.silence_frames = 0, !.buf = v.buf \o <<frame>>, !.preroll = << >>]

\* feed, lines 112-124: the start of speech is confirmed; the buffer takes the ring, which
\* holds the current frame already, and then the current frame once more
SpeechStart(v, ring, frame, tm) ==
    [v EXCEPT !.in_speech = TRUE, !.speech_frames = @ + 1, !.started_at = tm,
              !.silence_frames = 0, !.buf = v.buf \o ring \o <<frame>>, !.preroll = << >>]

\* feed, lines 106-138: a frame while idle
FeedIdle(v, ring, frame, is_voice, tm) ==
    [out |-> None,
     vad |-> IF ~is_voice THEN [v EXCEPT !.preroll = ring, !.speech_frames = 0]
             ELSE IF v.speech_frames + 1 >= SPEECH_CONFIRM_FRAMES THEN SpeechStart(v, ring, frame, tm)
             ELSE [v EXCEPT !.preroll = ring, !.speech_frames = @ + 1]]

\* feed, lines 148-151: the end of speech, decided on the silence and on the wall clock
\* since the start of speech
EndOfSpeech(silence_frames, started_at, tm) ==
    /\ silence_frames * AUDIO_FRAME_MS >= SILENCE_END_MS
    /\ tm - started_at >= MIN_UTTERANCE_MS

\* feed, lines 140-163: a frame while in speech
FeedSpeech(v, buf, silence_frames, tm) ==
    IF EndOfSpeech(silence_frames, v.started_at, tm) THEN [out |-> buf, vad |-> NewVAD]
    ELSE [out |-> None, vad |-> [v EXCEPT !.buf = buf, !.silence_frames = silence_frames]]

\* VAD.feed(frame, energy) at wall-clock time tm: the utterance or None, and the new state
feed(v, frame, energy, tm) ==
    IF ~v.in_speech THEN FeedIdle(v, RingAppend(v.preroll, frame), frame, energy >= ENERGY_FLOOR, tm)
    ELSE FeedSpeech(v, Append(v.buf, frame),
                    IF energy >= ENERGY_FLOOR THEN 0 ELSE v.silence_frames + 1, tm)

\* the microphone before the first frame. onset and spoken are history: the ring at the last
\* confirmation of speech and the frames fed in speech since
Mic0 == [fed |-> 0, clock |-> 0, utter |-> None, onset |-> << >>, spoken |-> << >>]

\* what the history records of one feed
Heard(m, v, frame, r) ==
    [m EXCEPT !.fed = @ + 1, !.utter = r.out,
              !.onset = IF ~v.in_speech /\ r.vad.in_speech THEN RingAppend(v.preroll, frame) ELSE @,
              !.spoken = IF v.in_speech THEN Append(@, frame)
                         ELSE IF r.vad.in_speech THEN << >> ELSE @]

\* the feed of one frame, with what the history records of it
Fed(m, v, frame, r) ==
    /\ vad' = r.vad
    /\ mic' = Heard(m, v, frame, r)

\* server.py:554: the audio loop feeds the next frame of the stream
VadFeed(energy) ==
    /\ mic.fed < MaxFrames
    /\ Fed(mic, vad, [id |-> mic.fed + 1, e |-> energy],
           feed(vad, [id |-> mic.fed + 1, e |-> energy], energy, mic.clock))
    /\ UNCHANGED <<st, tasks, ready, now, ws, harness, call, reprompts>>

\* time.time() advances by one frame duration
VadTick ==
    /\ mic.clock < MaxTicks * AUDIO_FRAME_MS
    /\ mic' = [mic EXCEPT !.clock = @ + AUDIO_FRAME_MS]
    /\ UNCHANGED <<st, tasks, ready, now, ws, harness, vad, call, reprompts>>

\* a segmenter as _handle_ws builds it
InitVad ==
    /\ harness = FALSE
    /\ st = InitSession("taj_mahal")
    /\ tasks = [t \in TaskIds |-> FreeTask]
    /\ ready = << >>
    /\ now = 0
    /\ ws = WsOpen
    /\ vad = NewVAD
    /\ mic = Mic0
    /\ call = None
    /\ reprompts = 0

NextVad ==
    \/ \E energy \in Energies : VadFeed(energy)
    \/ VadTick

SpecVad == InitVad /\ [][NextVad]_vars

\* the frames of an utterance, each once
FramesOf(utter) == { utter[i] : i \in 1..Len(utter) }

\* the duration of the voiced signal in an utterance
VoicedMs(utter) == Cardinality({ f \in FramesOf(utter) : f.e >= ENERGY_FLOOR }) * AUDIO_FRAME_MS

\* C11: feed never returns an utterance whose voiced signal is shorter than the minimum
\* utterance duration: a short blip that ends in silence is discarded, however much time passes.
C11_ShortBlipDiscarded ==
    mic.utter # None => VoicedMs(mic.utter) >= MIN_UTTERANCE_MS

IsPrefix(p, s) == Len(p) <= Len(s) /\ SubSeq(s, 1, Len(p)) = p
IsSuffix(p, s) == Len(p) <= Len(s) /\ SubSeq(s, Len(s) - Len(p) + 1, Len(s)) = p

\* C12: every utterance feed returns starts with the frames the pre-roll ring held when the
\* start of speech was confirmed and ends with every frame fed while in speech, in order, so it
\* is at least as long as the two together.
C12_OnsetNotClipped ==
    mic.utter # None =>
        /\ IsPrefix(mic.onset, mic.utter)
        /\ IsSuffix(mic.spoken, mic.utter)
        /\ Len(mic.utter) >= Len(mic.onset) + Len(mic.spoken)

\* an utterance is returned whose ring was full and held silence before the first voiced frame
C12_Witness ==
    /\ mic.utter # None
    /\ Len(mic.onset) = PrerollFrames
    /\ mic.onset[1].e < ENERGY_FLOOR
    /\ Len(mic.spoken) > 1

\* the longest utterance the model can tell from an unbounded one: one frame short of the stream
HardMaxFrames == MaxFrames - 1

\* C13: while in speech the accumulation buffer never grows beyond the hard maximum duration,
\* because feed emits the utterance when it reaches it, silence or not.
C13_BufferBounded ==
    vad.in_speech => Len(vad.buf) <= HardMaxFrames

(***************************************************************************)
(* Scripted dialogues: the turns of the documented ordering scenarios      *)
(***************************************************************************)
\* the largest number of items the scripted caller orders
MaxItems == 4

\* what the scripted caller says
ScriptTranscripts ==
    { <<"two", "butter", "chicken", "and", "one", "garlic", "naan">>,
      <<"one", "butter", "chicken">>,
      <<"one", "naan">>,
      <<"two", "naan">>,
      <<"plain">>,
      <<"garlic">>,
      <<"maybe">>,
      <<"no", ",", "i", "meant", "two">>,
      <<"pickup">> }

\* what the chat model replies to the scripted caller
ScriptReplies == { <<"sure">> }

\* the longest run of turns that leave a slot pending
MaxReprompts == 4

\* the pending slots of a session
SlotsOf(s) ==
    (IF s.pending_choice # None THEN {"pending_choice"} ELSE {})
    \cup { x \in {"pending_fulfillment", "pending_name", "pending_cart_check", "pending_confirm"} : s[x] }

\* one scripted turn, awaited as the tests await process_utterance; a turn that finds a slot
\* pending and leaves it pending adds to the run of re-prompts
ScriptTurn(tr) ==
    /\ harness
    /\ \A t \in TaskIds : Done(tasks, t)
    /\ Commit(Drain(Spawn(World, ProcIds[1], ProcLocals0), tr, now))
    /\ Total(st'.order) <= MaxItems
    /\ reprompts' = IF SlotsOf(st) \cap SlotsOf(st') # {} THEN reprompts + 1 ELSE 0
    /\ reprompts' <= MaxReprompts
    /\ UNCHANGED <<now, harness, vad, mic, call>>

\* the fake chat model answers the scripted turn that awaits it
ScriptReply(reply) ==
    /\ harness
    /\ \E t \in Procs :
         /\ tasks[t].status = "io"
         /\ Commit(Drain(IoComplete(World, t, <<"ok", reply>>), << >>, now))
    /\ Total(st'.order) <= MaxItems
    /\ UNCHANGED <<now, harness, vad, mic, call, reprompts>>

NextScript ==
    \/ \E tr \in ScriptTranscripts : ScriptTurn(tr)
    \/ \E reply \in ScriptReplies : ScriptReply(reply)

SpecScript == Init /\ [][NextScript]_vars

\* the utterance of the multi-item scenario, and the Order it asks for
SeveralItems == <<"two", "butter", "chicken", "and", "one", "garlic", "naan">>
SeveralItemsOrder == [k \in {"butter_chicken", "naan_garlic"} |-> IF k = "butter_chicken" THEN 2 ELSE 1]

\* C14: from an empty Order, "two butter chicken and one garlic naan" adds every item with its
\* own stated quantity, the garlic naan included, and no variant prompt is issued.
C14_EachItemItsOwnQuantity ==
    [][(st.order = << >> /\ AddPath(SeveralItems) /\ ScriptTurn(SeveralItems)) =>
          /\ st'.order = SeveralItemsOrder
          /\ st'.pending_choice = None
          /\ ws'.text # Say("naan_prompt")]_vars

\* the turns that name the generic item with a quantity, and the answers that name a variant
GenericAsks == { <<<<"one", "naan">>, 1>>, <<<<"two", "naan">>, 2>> }
VariantAnswers == { <<<<"plain">>, "naan_plain">>, <<<<"garlic">>, "naan_garlic">> }

MeantTwo == <<"no", ",", "i", "meant", "two">>

\* C16: within the correction window after an add of one item, with no slot pending, "no, I
\* meant two" rolls the add back and gives that same item the corrected quantity on top of
\* what it had before the add.
C16_CorrectionWithoutItem ==
    [][\A a \in st.last_added :
         (/\ st.last_added = {a} /\ (now - st.last_added_ts) < 12
          /\ PendingSlots = {} /\ ~st.order_finalized
          /\ ScriptTurn(MeantTwo)) =>
             st'.order = add(RollbackAll(st.order, st.last_added), a[1], 2)]_vars

\* lines 1421 and 1449: the cart check gives up at the third answer that is neither yes nor no
CART_CHECK_MAX_RETRIES == 3

\* C17: for every pending slot the run of consecutive turns that leave it pending is bounded
\* by a fixed cap: at the cap the slot is cleared and the dialogue proceeds past it.
C17_RepromptsCapped ==
    reprompts <= CART_CHECK_MAX_RETRIES

(***************************************************************************)
(* parse_add_item and norm_simple as functions of a text                   *)
(***************************************************************************)
\* the longest text, in tokens
MaxLen == 5

\* the words and the punctuation the texts are made of
ParseVocabulary == {"two", "naan", "garlic", "and", ",", "No"}

\* every text of at most MaxLen tokens
ParseTexts == UNION { [1..n -> ParseVocabulary] : n \in 0..MaxLen }

\* the qty argument: the caller's global quantity
ParseQtys == {1, 2}

\* a call before it is made: the arguments; done names the results that have been computed
NewCall(text, qty) ==
    [text |-> text, qty |-> qty, done |-> {}, out |-> << >>, cleaned |-> << >>,
     cleaned_twice |-> << >>, out_cleaned |-> << >>]

\* parse_add_item(menu, text, qty=qty)
ParseItems ==
    /\ "out" \notin call.done
    /\ call' = [call EXCEPT !.out = parse_add_item(call.text, call.qty), !.done = @ \cup {"out"}]
    /\ UNCHANGED <<st, tasks, ready, now, ws, harness, vad, mic, reprompts>>

\* norm_simple(text)
Clean ==
    /\ "cleaned" \notin call.done
    /\ call' = [call EXCEPT !.cleaned = norm_simple(call.text), !.done = @ \cup {"cleaned"}]
    /\ UNCHANGED <<st, tasks, ready, now, ws, harness, vad, mic, reprompts>>

\* norm_simple of the cleaned text
CleanAgain ==
    /\ "cleaned" \in call.done /\ "cleaned_twice" \notin call.done
    /\ call' = [call EXCEPT !.cleaned_twice = norm_simple(call.cleaned), !.done = @ \cup {"cleaned_twice"}]
    /\ UNCHANGED <<st, tasks, ready, now, ws, harness, vad, mic, reprompts>>

\* parse_add_item on the cleaned text
ParseCleaned ==
    /\ "cleaned" \in call.done /\ "out_cleaned" \notin call.done
    /\ call' = [call EXCEPT !.out_cleaned = parse_add_item(call.cleaned, call.qty),
                             !.done = @ \cup {"out_cleaned"}]
    /\ UNCHANGED <<st, tasks, ready, now, ws, harness, vad, mic, reprompts>>

\* any text and any quantity, on the menu of the session
InitParse ==
    /\ harness = FALSE
    /\ st = InitSession("taj_mahal")
    /\ tasks = [t \in TaskIds |-> FreeTask]
    /\ ready = << >>
    /\ now = 0
    /\ ws = WsOpen
    /\ vad = None
    /\ mic = None
    /\ reprompts = 0
    /\ \E text \in ParseTexts : \E qty \in ParseQtys : call = NewCall(text, qty)

NextParse ==
    \/ ParseItems
    \/ Clean
    \/ CleanAgain
    \/ ParseCleaned

SpecParse == InitParse /\ [][NextParse]_vars

\* the candidate matches and the spans chosen for the text of the call
CallCandidates == Candidates(norm_simple(call.text))
CallSpans == ChooseSpans(CallCandidates, << >>)
SpanSet(spans) == { spans[i] : i \in 1..Len(spans) }

\* C18: the entries of parse_add_item come from pairwise non-overlapping spans, one per item
\* id, and of two candidate matches that overlap in the text only the longer one gives an
\* entry.
C18_LongestSpanOnly ==
    "out" \in call.done =>
        /\ Len(call.out) = Len(CallSpans)
        /\ \A i, j \in 1..Len(CallSpans) :
              i # j => ~overlaps(CallSpans[i], CallSpans[j]) /\ call.out[i][1] # call.out[j][1]
        /\ \A c, d \in CallCandidates :
              (c # d /\ overlaps(c, d) /\ SortsBefore(c, d)) => d \notin SpanSet(CallSpans)

\* the token the left scan of _qty_near_span stops at for the span that starts at idx; 0 if none
QtyTokenLeft(toks, idx) ==
    LET hits == { j \in Max(1, idx - 3)..(idx - 1) : IsDigitTok(toks[j]) \/ QTY_WORDS(toks[j]) > 0 }
    IN IF hits = {} THEN 0 ELSE CHOOSE j \in hits : \A k \in hits : k <= j

\* the quantity of the span d stands next to it: no other chosen span lies between the two
OwnQuantity(toks, spans, d) ==
    \A c \in SpanSet(spans) \ {d} : ~(QtyTokenLeft(toks, d.s) < c.s /\ c.e < d.s)

\* C19: when two or more items are matched, an item without a quantity of its own gets 1, never
\* the global quantity, and the quantity an item gets is not one that stands before another
\* matched item.
C19_QuantityPerItem ==
    ("out" \in call.done /\ Len(call.out) > 1) =>
        \A i \in 1..Len(call.out) :
            /\ qty_near_span(norm_simple(call.text), CallSpans[i].s) = 0 => call.out[i][2] = 1
            /\ QtyTokenLeft(norm_simple(call.text), CallSpans[i].s) # 0 =>
                  OwnQuantity(norm_simple(call.text), CallSpans, CallSpans[i])

\* C20: parse_add_item gives the same entries for the cleaned text as for the text itself, and
\* cleaning the cleaned text changes nothing.
C20_CleaningIdempotent ==
    /\ {"out", "out_cleaned"} \subseteq call.done => call.out_cleaned = call.out
    /\ "cleaned_twice" \in call.done => call.cleaned_twice = call.cleaned

\* a text with punctuation and a capital inside its alias was parsed both ways, to one entry
C20_Witness ==
    /\ call.done = {"out", "cleaned", "cleaned_twice", "out_cleaned"}
    /\ call.text # call.cleaned
    /\ call.text = <<"No", ",", "two", "garlic", "naan">>
    /\ call.out = << <<"naan_garlic", 2>> >>

\* ---------------------------------------------------------------------------------
\* The orchestrator as a function: DeterministicParser.parse and
\* CognitiveOrchestrator.decide applied to any short utterance, with and without a
\* telemetry emitter and a telemetry context.
\* ---------------------------------------------------------------------------------

MaxUtterance == 3

OrchVocabulary == {"butter", "chicken", "naan", "garlic", "make", "it", "two", "No", ","}

OrchTexts == UNION { [1..n -> OrchVocabulary] : n \in 0..MaxUtterance }

\* the telemetry argument of the constructor and the telemetry_ctx argument of decide
Emitters == {None, "TelemetryEmitter"}
Contexts == {None, "TelemetryContext"}

\* a call before it is made: the arguments; done names the results that have been computed
NewDecide(text, telemetry, ctx) ==
    [text |-> text, telemetry |-> telemetry, ctx |-> ctx, done |-> {},
     pr |-> ParserResult(None, None, None),
     decision |-> OrchestratorDecision(None, ParserResult(None, None, None), None, None)]

\* DeterministicParser(alias_map).parse(text)
OrchParse ==
    /\ "pr" \notin call.done
    /\ call' = [call EXCEPT !.pr = parse(call.text), !.done = @ \cup {"pr"}]
    /\ UNCHANGED <<st, tasks, ready, now, ws, harness, vad, mic, reprompts>>

\* CognitiveOrchestrator(alias_map, telemetry).decide(text, telemetry_ctx)
OrchDecide ==
    /\ "decision" \notin call.done
    /\ call' = [call EXCEPT !.decision = decide(call.text, call.telemetry, call.ctx),
                            !.done = @ \cup {"decision"}]
    /\ UNCHANGED <<st, tasks, ready, now, ws, harness, vad, mic, reprompts>>

InitOrch ==
    /\ harness = FALSE
    /\ st = InitSession("taj_mahal")
    /\ tasks = [t \in TaskIds |-> FreeTask]
    /\ ready = << >>
    /\ now = 0
    /\ ws = WsOpen
    /\ vad = None
    /\ mic = None
    /\ reprompts = 0
    /\ \E text \in OrchTexts : \E telemetry \in Emitters : \E ctx \in Contexts :
          call = NewDecide(text, telemetry, ctx)

NextOrch ==
    \/ OrchParse
    \/ OrchDecide

SpecOrch == InitOrch /\ [][NextOrch]_vars

\* the alias keys the normalized utterance of the call equals, with their targets
CallAliasHits == { am \in parser_alias_map : am[1] = parser_norm(call.text) }

IsMatchStatus(status) == status \in {OrchestratorStatusMatch, ParserStatusMatch}
IsNoMatchStatus(status) == status \in {OrchestratorStatusNoMatch, ParserStatusNoMatch}

\* C21: decide routes DETERMINISTIC, with the alias table's target as matched entity and a
\* response text, exactly when the normalized utterance equals a normalized alias key; for
\* every other utterance, the empty one included, it routes AGENT with no matched entity and
\* no response text.
C21_DeterministicExactlyOnAlias ==
    "decision" \in call.done =>
        /\ (call.decision.route = "DETERMINISTIC") <=> (CallAliasHits # {})
        /\ CallAliasHits # {} =>
              /\ IsMatchStatus(call.decision.parser_result.status)
              /\ \E am \in CallAliasHits : call.decision.parser_result.matched_entity = am[2]
              /\ call.decision.response_text # None
        /\ CallAliasHits = {} =>
              /\ call.decision.route = "AGENT"
              /\ IsNoMatchStatus(call.decision.parser_result.status)
              /\ call.decision.parser_result.matched_entity = None
              /\ call.decision.response_text = None

\* "make it" and "doe er" as whole words of the normalized utterance
UpdateTriggers == { <<"make", "it">>, <<"doe", "er">> }
HasUpdateTrigger(text) == AnyPhrase(parser_norm(text), UpdateTriggers)

\* what matched_entity is when it is not a payload: None or a target of the alias table
PlainEntities == {None} \cup { am[2] : am \in parser_alias_map }

\* C22: parse returns MATCH with a SET_QTY payload when the utterance holds an update
\* trigger and a quantity in 1..10, and returns no payload for an utterance without trigger.
C22_SetQtyOnUpdateTrigger ==
    "pr" \in call.done =>
        /\ (HasUpdateTrigger(call.text) /\ extract_quantity_1_to_10(call.text) \in 1..10) =>
              /\ IsMatchStatus(call.pr.status)
              /\ call.pr.matched_entity \notin PlainEntities
        /\ ~HasUpdateTrigger(call.text) => call.pr.matched_entity \in PlainEntities

SttFailedTurn == HarnessTurn(STT_FAIL)

\* the turn whose chat request raised inside llm_turn (line 2229): the exception reaches
\* "except Exception" of lines 2254-2259
LlmFailedTurn == HarnessReply(LLM_FAIL)

\* a reply was synthesized to its end as the last thing the websocket saw
ReplySpoken(w) == w.last = "tts_end"

\* C24: a turn whose STT call or chat call raised ends with the please-repeat reply spoken,
\* and leaves the Order and the pending slots as they were.
C24_ServiceFailureAsksToRepeat ==
    [][(SttFailedTurn \/ LlmFailedTurn) =>
          /\ ReplySpoken(ws') /\ ws'.text = Say("didnt_catch")
          /\ st'.order = st.order
          /\ SlotsOf(st') = SlotsOf(st)]_vars

\* C25: after an exception inside turn processing a reply has been spoken to the caller,
\* is_processing is released and the websocket is still open.
C25_ExceptionApologizes ==
    [][LlmFailedTurn =>
          /\ ReplySpoken(ws')
          /\ ~st'.is_processing
          /\ ~ws'.closed]_vars

\* ---------------------------------------------------------------------------------
\* The model fallback: turns that reach llm_turn, and what the chat model may answer
\* ---------------------------------------------------------------------------------

FallbackTranscripts ==
    { <<"one", "butter", "chicken">>,
      <<"no">>,
      <<"how", "much">>,
      <<"remove", "it">>,
      <<"pickup">> }

\* replies of the chat model: a neutral one, two that speak of removal, two that call the
\* cart empty
FallbackReplies ==
    { <<"sure">>,
      <<"i", "will", "remove", "it">>,
      <<"i", "will", "cancel", "it">>,
      <<"your", "cart", "is", "empty">>,
      <<"you", "have", "not", "placed", "an", "order">> }

NextFallback ==
    \/ \E tr \in FallbackTranscripts : ScriptTurn(tr)
    \/ \E reply \in FallbackReplies : ScriptReply(reply)

SpecFallback == Init /\ [][NextFallback]_vars

\* the reply speaks of removing or cancelling
ClaimsRemoval(text) ==
    \/ \E x \in {"remove", "cancel", "delete", "verwijder", "annuleer", "schrap"} : CharIn(LowerSeq(text), x)
    \/ AnyPhrase(LowerSeq(text), {<<"take", "off">>, <<"haal", "weg">>})

\* the reply says that nothing has been ordered
ClaimsEmptyCart(text) ==
    AnyPhrase(LowerSeq(text), { <<"cart", "is", "empty">>, <<"not", "placed", "an", "order">> })

\* the utterance of the turn that awaits the chat model
AwaitedUtterance == tasks[CHOOSE t \in Procs : tasks[t].status = "io"].l.tr

\* C26: the reply spoken from the model fallback speaks of removal only if the utterance of
\* that turn carried an explicit remove intent, and calls the cart empty only if the Order
\* is empty.
C26_FallbackReplyGuarded ==
    [][\A reply \in FallbackReplies : ScriptReply(reply) =>
          /\ ClaimsRemoval(ws'.text) => detect_explicit_remove_intent(AwaitedUtterance, st.lang)
          /\ ClaimsEmptyCart(ws'.text) => st'.order = EmptyOrder]_vars

\* ---------------------------------------------------------------------------------
\* The output language: turns that name a language, in and out of the pending slots
\* ---------------------------------------------------------------------------------

LangTranscripts ==
    { <<"Nederlands">>,
      <<"english">>,
      <<"two", "naan">>,
      <<"garlic">>,
      <<"one", "butter", "chicken">>,
      <<"that", "is", "all">>,
      <<"pickup">> }

NextLang ==
    \/ \E tr \in LangTranscripts : ScriptTurn(tr)
    \/ \E reply \in ScriptReplies : ScriptReply(reply)

SpecLang == Init /\ [][NextLang]_vars

\* the language the utterance names if it is not the current one, else None
NamesOtherLanguage(s, tr) ==
    IF is_language_command(tr) # s.lang THEN is_language_command(tr) ELSE None

\* C27: a turn whose utterance names another supported language switches the output
\* language to it in that turn, whatever slot is pending, and sets the language lock; a
\* turn whose utterance names none leaves the output language as it was.
C27_LanguageFollowsExplicitName ==
    [][\A tr \in LangTranscripts : ScriptTurn(tr) =>
          /\ NamesOtherLanguage(st, tr) # None =>
                st'.lang = NamesOtherLanguage(st, tr) /\ st'.lang_locked
          /\ NamesOtherLanguage(st, tr) = None => st'.lang = st.lang]_vars

\* ---------------------------------------------------------------------------------
\* Dialogues of a few turns whose transcripts are remembered, turn by turn
\* ---------------------------------------------------------------------------------

MaxTurns == 3

MixedBiryani == <<"two", "butter", "chicken", "and", "two", "biryani">>
MixedNaan == <<"two", "butter", "chicken", "and", "two", "naan">>
SplitAnswer == <<"one", "plain", "naan", "and", "one", "garlic", "naan">>

TurnTranscripts ==
    { MixedBiryani,
      <<"lamb">>,
      MixedNaan,
      <<"garlic">>,
      <<"two", "naan">>,
      SplitAnswer,
      <<"one", "butter", "chicken">>,
      <<"no", ",", "one", "lamb", "karahi">>,
      <<"yes">>,
      <<"pickup">> }

\* one turn, awaited as the tests await process_utterance; said remembers the transcripts
SaidTurn(tr) ==
    /\ harness
    /\ Len(call.said) < MaxTurns
    /\ \A t \in TaskIds : Done(tasks, t)
    /\ Commit(Drain(Spawn(World, ProcIds[1], ProcLocals0), tr, now))
    /\ Total(st'.order) <= MaxItems
    /\ call' = [call EXCEPT !.said = Append(@, tr)]
    /\ UNCHANGED <<now, harness, vad, mic, reprompts>>

InitTurns ==
    /\ harness = TRUE
    /\ st = InitSession("taj_mahal")
    /\ tasks = [t \in TaskIds |-> FreeTask]
    /\ ready = << >>
    /\ now = 0
    /\ ws = WsOpen
    /\ vad = None
    /\ mic = None
    /\ reprompts = 0
    /\ call = [said |-> << >>]

NextTurns ==
    \/ \E tr \in TurnTranscripts : SaidTurn(tr)
    \/ \E reply \in Replies : ScriptReply(reply)

SpecTurns == InitTurns /\ [][NextTurns]_vars

\* no turn is being processed: the last one has returned
TurnOver == \A t \in TaskIds : Done(tasks, t)

\* a first turn that names a resolvable item and a generic one, each with a quantity, the
\* answer that picks the variant, and the Order the two turns are to give
MixedScripts ==
    { [ask |-> MixedBiryani, answer |-> <<"lamb">>, first |-> "butter_chicken", first_qty |-> 2,
       variant |-> "lamb_biryani", held |-> 2],
      [ask |-> MixedNaan, answer |-> <<"garlic">>, first |-> "butter_chicken", first_qty |-> 2,
       variant |-> "naan_garlic", held |-> 2] }

\* C28: after the turn that names a resolvable item and a generic item the resolvable item is
\* in the Order with its quantity; after the next turn, which picks the variant, the variant
\* is in the Order with the quantity of the first turn and the first item is unchanged.
C28_VariantAfterMixedTurn ==
    \A m \in MixedScripts :
        /\ (call.said = <<m.ask>> /\ TurnOver) =>
              /\ Get(st.order, m.first, 0) = m.first_qty
              /\ Get(st.order, m.variant, 0) = 0
        /\ (call.said = <<m.ask, m.answer>> /\ TurnOver) =>
              /\ Get(st.order, m.first, 0) = m.first_qty
              /\ Get(st.order, m.variant, 0) = m.held

\* C29: "two naan" answered by "one plain naan and one garlic naan" leaves one plain and one
\* garlic naan in the Order, whatever the slot held, and the slot cleared.
C29_SplitAnswerSetsBoth ==
    (call.said = << <<"two", "naan">>, SplitAnswer >> /\ TurnOver) =>
        /\ Get(st.order, "naan_plain", 0) = 1
        /\ Get(st.order, "naan_garlic", 0) = 1
        /\ st.pending_choice = None

\* C30: a turn that finds the item-variant slot pending changes the Order only as the variant
\* handler does, by adding the held quantity of one naan variant, or not at all.
C30_VariantSlotOwnsTheTurn ==
    [][\A tr \in TurnTranscripts :
          (st.pending_choice = "nan_variant" /\ SaidTurn(tr)) =>
              \/ st'.order = st.order
              \/ \E v \in NaanItems : st'.order = add(st.order, v, st.pending_qty)]_vars

\* ---------------------------------------------------------------------------------
\* Dialogues that bring the session into each pending slot and answer it
\* ---------------------------------------------------------------------------------

SpicyQuestion == <<"is", "garlic", "naan", "spicy", "?">>

\* what the caller says in and around the slots
SlotTranscripts ==
    { << >>,
      <<"one", "butter", "chicken">>,
      <<"two", "naan">>,
      <<"garlic">>,
      <<"cheese">>,
      SpicyQuestion,
      <<"maybe">>,
      <<"I'd", "like">>,
      <<"yes">>,
      <<"no">> }

\* what the chat model replies in these dialogues
SlotReplies == { <<"sure">> }

NextSlots ==
    \/ \E tr \in SlotTranscripts : ScriptTurn(tr)
    \/ \E reply \in SlotReplies : ScriptReply(reply)

SpecSlots == Init /\ [][NextSlots]_vars

\* the utterance is an incomplete prefix, held for the words that follow it
IsHeldPrefix(t) ==
    LowerSeq(t) \in { <<"i'd", "like">>, <<"i", "would", "like">>, <<"i", "want">>,
                      <<"i'd", "like", "to">>, <<"i", "want", "to">> }

\* what a turn hears: its transcript joined to the prefix held from the turn before
HeardUtterance(tr) == MergedTranscript(st, tr, now)

\* the turn with transcript tr is handled by _handle_pending_nan_variant
SlotHandlerOwns(tr) ==
    /\ st.pending_choice = "nan_variant"
    /\ ~st.pending_cart_check
    /\ HeardUtterance(tr) # << >>
    /\ ~IsHeldPrefix(HeardUtterance(tr))
    /\ SegMain(st, [ProcLocals0 EXCEPT !.tr = HeardUtterance(tr)], now).l.br
           \in {"nv_resolved", "nv_reprompt", "nv_question"}

\* the variants an answer names by a keyword the slot knows
KeywordVariants(tr) ==
    { v \in {"plain", "garlic", "cheese", "peshawari", "keema"} :
        HasWord(norm_simple(tr),
                CASE v = "plain" -> PLAIN_LIKE \cup {"simpel", "standard", "lamb", "lam", "lamsfilet", "lams",
                                                    "klein", "klijn"}
                  [] v = "garlic" -> {"garlic", "knoflook"}
                  [] v = "cheese" -> {"cheese", "kaas"}
                  [] OTHER -> {v}) }

\* the naan of the menu that is of variant v, None if the menu has none
MatchingItem(v) ==
    LET of_v == { x \in NaanItems :
                    IF v = "plain" THEN display_name(x) \in {<<"nan">>, <<"naan">>}
                    ELSE CharIn(display_name(x), v) }
    IN IF of_v = {} THEN None ELSE CHOOSE x \in of_v : TRUE

\* C31: in the item-variant handler an answer with a variant keyword adds the naan of that
\* variant with the held quantity, once, clears the slot and latches the cart confirmation;
\* any other answer leaves the Order, the held quantity and the slot as they were and the
\* variant prompt is repeated.
C31_VariantHandlerAddsOrReprompts ==
    [][\A tr \in SlotTranscripts :
          (SlotHandlerOwns(tr) /\ ScriptTurn(tr)) =>
              IF \E v \in KeywordVariants(HeardUtterance(tr)) : MatchingItem(v) # None
              THEN \E v \in KeywordVariants(HeardUtterance(tr)) :
                      /\ MatchingItem(v) # None
                      /\ st'.order = add(st.order, MatchingItem(v), st.pending_qty)
                      /\ st'.pending_choice = None
                      /\ st'.pending_cart_check
              ELSE /\ st'.order = st.order
                   /\ st'.pending_qty = st.pending_qty
                   /\ st'.pending_choice = "nan_variant"
                   /\ ws'.text = Say("naan_prompt")]_vars

\* the answer to the cart confirmation: yes, no (alone or leading the rest), or neither
CartAnswerKind(tr) ==
    IF PrefixMatch(tr, {"yes", "yeah", "yep", "ok", "okay", "sure", "ja", "oke", "prima"}) THEN "AFFIRM"
    ELSE IF PrefixMatch(tr, {"no", "nope", "nah", "nee"}) THEN "NEGATE"
    ELSE fast_yes_no(tr)

\* the cart question and its shorter form
CartPrompts == { Say("cart_check"), Say("say_yes_or_no") }

\* what the cart confirmation does in a turn, by the utterance t it hears
CartCheckEffect(t) ==
    IF CartAnswerKind(t) # None \/ CartActionable(st, t, check_naan_request(t))
    THEN /\ ~st'.pending_cart_check
         /\ st'.cart_check_retries = 0
    ELSE IF st.cart_check_retries + 1 >= CART_CHECK_MAX_RETRIES
    THEN /\ ~st'.pending_cart_check
         /\ st'.cart_check_retries = 0
         /\ st'.order = st.order
         /\ st.fulfillment_mode = None => st'.pending_fulfillment /\ ws'.text = Say("pickup_or_delivery")
         /\ st.fulfillment_mode # None => ws'.text = Say("anything_else")
    ELSE /\ st'.pending_cart_check
         /\ st'.cart_check_retries = st.cart_check_retries + 1
         /\ st'.order = st.order
         /\ ws'.text \in CartPrompts

MaxClock == 26

\* a pause longer than the correction window and the offer TTL
Pauses == {26}

CorrectionTurn == <<"no", ",", "one", "lamb", "karahi">>

\* what the caller says on the way to the closed order
CheckoutTranscripts ==
    { <<"one", "butter", "chicken">>,
      <<"that", "is", "all">>,
      <<"pickup">>,
      <<"Marcel">>,
      CorrectionTurn,
      <<"yes">> }

\* what the chat model replies: a plain reply, an offer of one item
OfferReply == <<"would", "you", "like", "to", "add", "butter", "chicken", "?">>
CheckoutReplies == { <<"sure">>, OfferReply }

\* the caller waits before the next turn
Pause(d) ==
    /\ harness
    /\ \A t \in TaskIds : Done(tasks, t)
    /\ now + d <= MaxClock
    /\ now' = now + d
    /\ UNCHANGED <<st, tasks, ready, ws, harness, vad, mic, call, reprompts>>

NextCheckout ==
    \/ \E tr \in CheckoutTranscripts : ScriptTurn(tr)
    \/ \E reply \in CheckoutReplies : ScriptReply(reply)
    \/ \E d \in Pauses : Pause(d)

SpecCheckout == Init /\ [][NextCheckout]_vars

\* the slots other than the fulfillment slot
OtherSlots(s) == <<s.pending_choice, s.pending_name, s.pending_cart_check, s.pending_confirm>>

\* C32: while the fulfillment slot is pending a turn without a pickup/delivery keyword leaves
\* the slot pending, leaves the Order, the customer name and the other slots unchanged and
\* asks pickup or delivery again; a turn with such a keyword sets the fulfillment mode and
\* clears the slot.
C32_FulfillmentSlotDoesNotLeak ==
    [][\A tr \in CheckoutTranscripts :
          (st.pending_fulfillment /\ ScriptTurn(tr)) =>
              IF parse_fulfillment(tr) # None
              THEN /\ st'.fulfillment_mode = parse_fulfillment(tr)
                   /\ ~st'.pending_fulfillment
              ELSE /\ st'.pending_fulfillment
                   /\ st'.order = st.order
                   /\ st'.customer_name = st.customer_name
                   /\ OtherSlots(st') = OtherSlots(st)
                   /\ ws'.text = Say("pickup_or_delivery")]_vars

\* lines 1536 and 1087-1090: the offer TTL, in seconds
OFFER_TTL_SEC == 25

\* the reply is an affirmation or an add request
AffirmsOrAdds(tr) ==
    \/ HasWord(norm_simple(tr), {"yes", "yeah", "yep", "sure", "please", "ok", "okay", "ja", "jazeker",
                                 "correct", "klopt"})
    \/ CharIn(norm_simple(tr), "add") \/ CharIn(norm_simple(tr), "toevoeg")

\* the text is an offer of exactly one item of the menu
SingleItemOffer(text) ==
    is_offer(text) /\ Cardinality({ parse_add_item(text, 1)[i][1] : i \in 1..Len(parse_add_item(text, 1)) }) = 1

\* the turn ended with the reply of the offer acceptance
AcceptedOffer == ws'.text = Say("added_offer") /\ st'.order # st.order

\* C34: a turn adds an item through offer acceptance only if the agent's last utterance was
\* an offer of a single item made less than the TTL ago and the reply affirms or asks to add
\* and names no item; it adds one portion of the offered item (or the stated quantity) and
\* clears the offer.
C34_OfferAcceptedOnlyWhenFresh ==
    [][\A tr \in CheckoutTranscripts :
          (ScriptTurn(tr) /\ AcceptedOffer) =>
              /\ SingleItemOffer(ws.text)
              /\ now - st.offered_ts < OFFER_TTL_SEC
              /\ AffirmsOrAdds(tr)
              /\ parse_add_item(tr, 1) = << >>
              /\ st'.order = add(st.order, st.offered_item_id, Max(1, OrElse(extract_qty_first(tr, "en"), 1)))
              /\ st'.offered_item_id = None]_vars

\* the per-item increases from Order o to Order o2
Increases(o, o2) == { <<k, Get(o2, k, 0) - Get(o, k, 0)>> : k \in { x \in DOMAIN o2 : Get(o2, x, 0) > Get(o, x, 0) } }

\* the turn ended in the deterministic add path or in the variant slot, not in a correction
\* or an offer acceptance
AddOrVariantTurn == ws'.text \notin { Say("sorry_updated"), Say("added_offer") }

\* C35: after a turn in which the add path or a variant resolution raised quantities of the
\* Order, last_added holds exactly the increases of that turn, stamped with the time of the
\* turn, so that rolling last_added back gives the Order of before the turn.
C35_LastAddedIsTheTurnsDelta ==
    [][\A tr \in TurnTranscripts :
          (SaidTurn(tr) /\ AddOrVariantTurn /\ Increases(st.order, st'.order) # {}) =>
              /\ st'.last_added = Increases(st.order, st'.order)
              /\ st'.last_added_ts = now
              /\ RollbackAll(st'.order, st'.last_added) = st.order]_vars

\* the replies to a caller whose order is closed
ClosingReplies == { Say("thanks_goodbye"), Say("already_confirmed") }

\* C38: once the order is complete or finalized no later turn changes the Order: every later
\* turn is answered with the closing reply.
C38_ClosedOrderIsFrozen ==
    [][\A tr \in CheckoutTranscripts :
          ((st.order_complete \/ st.order_finalized) /\ ScriptTurn(tr)) =>
              /\ st'.order = st.order
              /\ ws'.text \in ClosingReplies]_vars

\* C39: a turn that sent "thinking" has sent "clear_thinking" by the time its processing
\* has ended, on every branch: the indicator is not showing once a turn is over.
C39_ThinkingClearedAfterTurn == TurnOver => ~ws.thinking

(***************************************************************************)
(* The pause-merge buffer of the audio loop                                *)
(***************************************************************************)
\* the buffer the audio loop holds and its flush deadline
HeldBuffer == tasks["main"].l.pending
FlushDeadline == tasks["main"].l.deadline

\* the audio loop is about to run lines 529-582 on a frame: it is past the start-up window,
\* and either it has just cleared the audio queue for a loud frame or the frame needs no barge-in
AtFeed ==
    /\ ~harness
    /\ ready # << >>
    /\ Head(ready) = "main"
    /\ tasks["main"].wake # "exc"
    /\ \/ tasks["main"].l.pc = "feed"
       \/ /\ tasks["main"].l.pc = "loop"
          /\ tasks["main"].inp.type = "frame"
          /\ ~((now - tasks["main"].l.started) < STARTUP_IGNORE_SEC)
          /\ ~(InFlight(World, st.tts_task) /\ tasks["main"].inp.hot)

\* the step in which it runs them: the audio loop leaves the ready queue
FeedStep == AtFeed /\ tasks'["main"].status # "ready"

\* the frame it runs them on
FedFrame == IF tasks["main"].l.pc = "feed" THEN tasks["main"].l.msg ELSE tasks["main"].inp

\* the held buffer is due at this frame (line 530), and what is held once line 552 is passed
FlushDue == HeldBuffer # << >> /\ now >= FlushDeadline
HeldAtEmission == IF FlushDue THEN << >> ELSE HeldBuffer

\* a turn is dispatched to the state machine: a turn-processing task is created
Dispatched == \E t \in Procs : tasks[t] = FreeTask /\ tasks'[t] # FreeTask

GraceFor(pcm) == IF PcmLen(pcm) <= FRAGMENT_MAX_BYTES THEN PAUSE_MERGE_SEC_FRAGMENT ELSE PAUSE_MERGE_SEC

\* C36: on every segmenter emission the held buffer becomes what was held followed by the new
\* utterance (the new utterance alone when nothing is held) and the flush deadline becomes
\* now + the fragment grace if the held buffer is at most FRAGMENT_MAX_BYTES long, else now +
\* the normal grace; a held buffer is dispatched only at a frame at or after its deadline.
C36_MergeAndDeadline ==
    [][/\ (FeedStep /\ FedFrame.utter > 0) =>
            /\ HeldBuffer' = HeldAtEmission \o <<FedFrame.utter>>
            /\ FlushDeadline' = now + GraceFor(HeldBuffer')
       /\ Dispatched => (FeedStep /\ FlushDue)]_vars

\* two utterances were merged after an earlier buffer was dispatched
C36_Witness ==
    /\ ~harness
    /\ tasks["main"].status = "recv"
    /\ HeldBuffer = <<1, 2>>
    /\ FlushDeadline = now + PAUSE_MERGE_SEC
    /\ st.proc_task # None

\* The audio loop under the scheduling asyncio gives it: a ready task is run, an awaited
\* service call or send completes, the clock advances. Nothing obliges the client to send:
\* it may send audio frames, control messages, or nothing.
FlushMsgs ==
    { [NoMsg EXCEPT !.type = "barge_in"], [NoMsg EXCEPT !.type = "disconnect"],
      [type |-> "frame", hot |-> FALSE, utter |-> 0],
      [type |-> "frame", hot |-> FALSE, utter |-> 2] }

NextFlush ==
    \/ \E yield \in BOOLEAN : RunMain(yield)
    \/ \E yield \in BOOLEAN : RunHb(yield)
    \/ \E yield \in BOOLEAN : RunProc(yield)
    \/ \E yield \in BOOLEAN : RunTts(yield)
    \/ \E t \in TaskIds : IoDone(t)
    \/ \E m \in FlushMsgs : ClientMsg(m)
    \/ \E d \in TickSteps : Tick(d)

\* The steps as the scheduler sees them. The task at the head of the ready queue runs to its
\* next await: it leaves the queue, and the tasks it woke, cancelled or created join it
Joined ==
    {<< >>} \cup { <<x>> : x \in TaskIds } \cup { <<x, y>> : x, y \in TaskIds }
        \cup { <<x, y, z>> : x, y, z \in TaskIds }
SchedRun(C) ==
    /\ ~harness /\ ready # << >> /\ Head(ready) \in C
    /\ ready' \in { Tail(ready) \o s : s \in Joined }
\* an awaited call or send completes: the task that awaited it joins the queue
SchedIo ==
    /\ ~harness
    /\ \E t \in TaskIds : tasks[t].status = "io" /\ ready' = Append(ready, t)
\* the clock advances while the loop is idle, no further than the next sleeper is due
SchedTick ==
    /\ ~harness /\ ready = << >> /\ now + 1 <= MaxNow
    /\ \A t \in TaskIds : tasks[t].status = "sleep" => now + 1 <= tasks[t].l.due
    /\ now' = now + 1

\* asyncio runs every ready task, every awaited call and send completes, time passes
Scheduling ==
    /\ WF_ready(SchedRun({"main"}))
    /\ WF_ready(SchedRun({"hb"}))
    /\ WF_ready(SchedRun(Procs))
    /\ WF_ready(SchedRun(Ttss))
    /\ WF_ready(SchedIo)
    /\ WF_now(SchedTick)

SpecFlush == InitConc /\ [][NextFlush]_vars /\ Scheduling

\* the session is connected: the socket is open and the audio loop has not ended
Connected == ~ws.closed /\ Alive(tasks, "main")

\* a buffer is held and its deadline has passed
HeldPastDeadline == Connected /\ HeldBuffer # << >> /\ now >= FlushDeadline

\* C37: once the deadline of a held buffer has passed the buffer is eventually dispatched, or
\* the session is no longer connected, whether or not the client sends another audio frame.
C37_HeldBufferEventuallyDispatched ==
    [](HeldPastDeadline => <>(~Connected \/ HeldBuffer = << >>))

\* C40: every frame fed to the segmenter appears at most once in an emitted utterance, in
\* feed order: the frames of an utterance are strictly increasing in the order they were fed,
\* the frame on which the start of speech was confirmed included.
C40_EachFrameOnceInFeedOrder ==
    mic.utter # None =>
        \A i, j \in 1..Len(mic.utter) : i < j => mic.utter[i].id < mic.utter[j].id

====
